---- MODULE Spec2Model ----
(***************************************************************************)
(* A model of dd-val / dd-eval (zacharypfiz/dd-val): the corruption engine *)
(* (dd_eval/corrupt.py), the synthetic generator and corpus seeder         *)
(* (dd_eval/synth.py, dd_eval/seed.py), the check engine and its CLI       *)
(* (dd_val/checks.py, dd_val/parse.py, dd_val/cli.py) and the scoring      *)
(* harness (dd_eval/score.py).                                             *)
(*                                                                         *)
(* Representation.  A Python str is a sequence of symbols (Str).  A symbol *)
(* is a TLA+ string: one character for digits, separators and punctuation, *)
(* and a whole word for a run of letters that the code never looks inside  *)
(* ("Male", "record_id").  "" is <<>>.  An optional value (None or x) is   *)
(* <<>> or <<x>>.  A Python dict with string keys whose insertion order    *)
(* the code can observe (a data row, a JSON object) is a sequence of       *)
(* <<key, value>> pairs.                                                   *)
(***************************************************************************)
EXTENDS Integers, Sequences, FiniteSets, TLC

VARIABLES
    \* ---- scoring harness (score.py)
    corpus,      \* run directory -> [gold: file, findings: file]
    mode,        \* match mode of the last score_corpus call
    result,      \* what the last score_corpus call returned (or "raised")
    prevResult,  \* what the call before it returned
    edits,       \* edits made to the corpus files since the last call
    scoredEdits, \* edits that separate prevResult from result
    \* ---- validation runs (cli.py)
    disk,        \* run directory name -> None or the files of the directory
    last,        \* the last run of dd-val: its command line and what it did
    \* ---- corpus seeding (seed.py)
    seeding,     \* the last seed_corpus call: its arguments, whether it raised
    \* ---- corruption engine (corrupt.py)
    held,        \* the dictionary rows and data rows the caller holds
    call,        \* the last call of the engine: arguments, outcome
    prevCall,    \* the call before it
    rnd,         \* the state of the generator of the random module
    \* ---- direct calls of one check (checks.py)
    checkCall    \* the last call: its dictionary, its dataset, what it returned

scoreVars == <<corpus, mode, result, prevResult, edits, scoredEdits>>
cliVars == <<disk, last>>
seedVars == <<seeding>>
corruptVars == <<held, call, prevCall>>
checkVars == <<checkCall>>
vars == <<scoreVars, cliVars, seedVars, corruptVars, rnd, checkVars>>
notScoreVars == <<cliVars, seedVars, corruptVars, rnd, checkVars>>
notCliVars == <<scoreVars, seedVars, corruptVars, rnd, checkVars>>
notSeedVars == <<scoreVars, corruptVars, checkVars>>
notCorruptVars == <<scoreVars, cliVars, seedVars, checkVars>>
notCheckVars == <<scoreVars, cliVars, seedVars, corruptVars, rnd>>

\* nothing held, no call made yet
NoInputs == [held |-> "nothing"]
NoCall == [fn |-> "none"]
NoCheck == [fn |-> "none yet"]

\* A specification leaves the variables of the other parts at rest.
IdleScore ==
    /\ corpus = <<>> /\ mode = "" /\ result = <<>> /\ prevResult = <<>>
    /\ edits = <<>> /\ scoredEdits = <<>>
IdleCli == disk = <<>> /\ last = [name |-> <<>>]
IdleSeed == seeding = <<>>
IdleCorrupt == held = NoInputs /\ call = NoCall /\ prevCall = NoCall
IdleRnd == rnd = 0
IdleCheck == checkCall = NoCheck

-----------------------------------------------------------------------------
(* Generic helpers                                                         *)

None == <<>>
Some(x) == <<x>>

Min(a, b) == IF a <= b THEN a ELSE b
Max(a, b) == IF a >= b THEN a ELSE b

Range(s) == {s[i] : i \in DOMAIN s}

\* s[:n]
Take(s, n) == SubSeq(s, 1, Min(n, Len(s)))
\* s[n:]  (0-based n, as in Python)
Drop(s, n) == SubSeq(s, n + 1, Len(s))

RECURSIVE SelectSeqBy(_, _)
\* [x for x in s if x \in keep]  (SelectSeq with a set test)
SelectSeqBy(s, keep) ==
    IF s = <<>> THEN <<>>
    ELSE (IF Head(s) \in keep THEN <<Head(s)>> ELSE <<>>) \o SelectSeqBy(Tail(s), keep)

RECURSIVE Flatten(_)
\* the concatenation of a sequence of sequences
Flatten(ss) == IF ss = <<>> THEN <<>> ELSE Head(ss) \o Flatten(Tail(ss))

RECURSIVE SumSeq(_)
SumSeq(s) == IF s = <<>> THEN 0 ELSE Head(s) + SumSeq(Tail(s))

\* the number of positions of s whose element is in the set keep
CountIn(s, keep) == Cardinality({i \in DOMAIN s : s[i] \in keep})

\* the first position of x in s, 0 when absent
IndexOf(s, x) ==
    IF \E i \in DOMAIN s : s[i] = x
    THEN CHOOSE i \in DOMAIN s : s[i] = x /\ \A j \in 1..(i - 1) : s[j] /= x
    ELSE 0

\* list.pop(i) followed by list.append of the popped element (1-based i)
MoveToEnd(s, i) == SubSeq(s, 1, i - 1) \o SubSeq(s, i + 1, Len(s)) \o <<s[i]>>

-----------------------------------------------------------------------------
(* Strings: code-point order, strip, split                                 *)

\* The symbols of the model in code-point order (Python compares str by
\* code point).  No symbol is a proper prefix of another symbol that it is
\* compared with, so comparing symbol by symbol is comparing the strings.
Alphabet ==
    << " ", "\"", "'1'", ",", "-", ".", "/",
       "0", "1", "2", "3", "4", "5", "6", "7", "8", "9",
       ":", "=", "Excellent", "Fair", "False", "Female", "Good", "Male", "No",
       "Outstanding", "Poor", "True", "Yes", "[", "[sex]", "]", "___",
       "adls", "adls_dress", "adls_eat", "adls_wash", "age", "baseline_arm_1",
       "bmi", "bp_dia", "bp_sys", "clean", "cm", "dataset", "dbp", "e", "expected_missing",
       "extra_col", "followup", "followup_arm_1", "foo", "height_cm", "heightcm",
       "ht_cm", "kg", "mmHg", "new_since_last_run", "notes", "observed_added",
       "pain_severity", "perturbed", "pregnant", "proj", "record_id", "satisfaction", "sbp", "sex",
       "symptoms", "units=", "v", "visit_date_v1", "visit_date_v2", "weight_kg",
       "x", "y", "{", "|", "}" >>

RankTable == [sym \in Range(Alphabet) |-> IndexOf(Alphabet, sym)]
Rank(sym) == RankTable[sym]

RECURSIVE StrLess(_, _)
\* a < b on Python str
StrLess(a, b) ==
    IF b = <<>> THEN FALSE
    ELSE IF a = <<>> THEN TRUE
    ELSE IF Head(a) = Head(b) THEN StrLess(Tail(a), Tail(b))
    ELSE Rank(Head(a)) < Rank(Head(b))

RECURSIVE SortStrs(_)
\* sorted(set of str)
SortStrs(S) ==
    IF S = {} THEN <<>>
    ELSE LET m == CHOOSE x \in S : \A y \in S \ {x} : StrLess(x, y)
         IN  <<m>> \o SortStrs(S \ {m})

Digits == {"0", "1", "2", "3", "4", "5", "6", "7", "8", "9"}
DigitVal(c) == Rank(c) - Rank("0")

\* the whitespace of the model
Whitespace == {" ", "\n"}

RECURSIVE LStrip(_)
LStrip(s) == IF s /= <<>> /\ Head(s) \in Whitespace THEN LStrip(Tail(s)) ELSE s

RECURSIVE RStrip(_)
RStrip(s) == IF s /= <<>> /\ s[Len(s)] \in Whitespace THEN RStrip(SubSeq(s, 1, Len(s) - 1)) ELSE s

\* str.strip()
Strip(s) == RStrip(LStrip(s))

RECURSIVE StripChars(_, _)
\* str.strip(chars): drops leading and trailing symbols that are in chars
StripChars(s, chars) ==
    IF s /= <<>> /\ Head(s) \in chars THEN StripChars(Tail(s), chars)
    ELSE IF s /= <<>> /\ s[Len(s)] \in chars THEN StripChars(SubSeq(s, 1, Len(s) - 1), chars)
    ELSE s

RECURSIVE Split(_, _)
\* str.split(sep) for a one-symbol separator: always at least one part
Split(s, sep) ==
    LET i == IndexOf(s, sep)
    IN  IF i = 0 THEN <<s>>
        ELSE <<SubSeq(s, 1, i - 1)>> \o Split(SubSeq(s, i + 1, Len(s)), sep)

\* str.split(sep, 1)
Split1(s, sep) ==
    LET i == IndexOf(s, sep)
    IN  IF i = 0 THEN <<s>> ELSE <<SubSeq(s, 1, i - 1), SubSeq(s, i + 1, Len(s))>>

\* sub in s, for a sub of one or two symbols
Contains(s, sub) ==
    \E i \in 1..(Len(s) - Len(sub) + 1) : SubSeq(s, i, i + Len(sub) - 1) = sub

\* s.startswith(p)
StartsWith(s, p) == Len(s) >= Len(p) /\ SubSeq(s, 1, Len(p)) = p

-----------------------------------------------------------------------------
(* Rationals: the value of a Python float division of two small ints.      *)
(* <<n, d>> with d > 0 in lowest terms.  For the counts the model reaches   *)
(* (far below 2^26) distinct rationals are distinct doubles and the order  *)
(* of the doubles is the order of the rationals.                           *)

RECURSIVE GCD(_, _)
GCD(a, b) == IF b = 0 THEN a ELSE GCD(b, a % b)

Rat(n, d) == LET g == GCD(n, d) IN IF n = 0 THEN <<0, 1>> ELSE <<n \div g, d \div g>>
RatZero == Rat(0, 1)
RatOne == Rat(1, 1)
RatLess(p, q) == p[1] * q[2] < q[1] * p[2]
RatLeq(p, q) == p[1] * q[2] <= q[1] * p[2]

-----------------------------------------------------------------------------
(* JSON payloads and json.dumps(..., sort_keys=True)                       *)
(* A payload is [k |-> "str", v |-> Str], [k |-> "list", v |-> sequence of *)
(* payloads] or [k |-> "map", v |-> sequence of <<key, payload>>] in the   *)
(* order the file (or the dict) holds the entries.                         *)

PStr(s) == [k |-> "str", v |-> s]
PList(ps) == [k |-> "list", v |-> ps]
PMap(kvs) == [k |-> "map", v |-> kvs]

RECURSIVE JoinComma(_)
\* ", ".join(parts)
JoinComma(parts) ==
    IF parts = <<>> THEN <<>>
    ELSE IF Len(parts) = 1 THEN Head(parts)
    ELSE Head(parts) \o <<",", " ">> \o JoinComma(Tail(parts))

RECURSIVE SortByKey(_)
\* the entries of a mapping sorted by key (sort_keys=True)
SortByKey(kvs) ==
    IF kvs = <<>> THEN <<>>
    ELSE LET i == CHOOSE i \in DOMAIN kvs :
                     \A j \in DOMAIN kvs : j = i \/ StrLess(kvs[i][1], kvs[j][1])
         IN  <<kvs[i]>> \o SortByKey(SubSeq(kvs, 1, i - 1) \o SubSeq(kvs, i + 1, Len(kvs)))

\* The mutant of JsonDumps: json.dumps without sort_keys.
RECURSIVE JsonDumpsUnsorted(_)
JsonDumpsUnsorted(p) ==
    CASE p.k = "str" -> <<"\"">> \o p.v \o <<"\"">>
      [] p.k = "list" ->
            <<"[">> \o JoinComma([i \in DOMAIN p.v |-> JsonDumpsUnsorted(p.v[i])]) \o <<"]">>
      [] p.k = "map" ->
            <<"{">> \o JoinComma([i \in DOMAIN p.v |->
                          <<"\"">> \o p.v[i][1] \o <<"\"", ":", " ">>
                          \o JsonDumpsUnsorted(p.v[i][2])])
            \o <<"}">>

RECURSIVE JsonDumpsSorted(_)
JsonDumpsSorted(p) ==
    CASE p.k = "str" -> <<"\"">> \o p.v \o <<"\"">>
      [] p.k = "list" ->
            <<"[">> \o JoinComma([i \in DOMAIN p.v |-> JsonDumpsSorted(p.v[i])]) \o <<"]">>
      [] p.k = "map" ->
            LET es == SortByKey(p.v)
            IN  <<"{">> \o JoinComma([i \in DOMAIN es |->
                              <<"\"">> \o es[i][1] \o <<"\"", ":", " ">>
                              \o JsonDumpsSorted(es[i][2])])
                \o <<"}">>

\* json.dumps(p, sort_keys=True): lists keep their order, mappings are
\* written in key order at every depth
JsonDumps(p) == JsonDumpsSorted(p)

-----------------------------------------------------------------------------
(* Scoring harness: dd_eval/score.py                                       *)

\* An issue record of gold.json or of findings.json: "type" and "variable"
\* (issue.get(..., "") makes an absent one ""), and the optional payloads.
Issue(t, v, e, o) == [type |-> t, variable |-> v, expected |-> e, observed |-> o]

\* A file of a run directory.  st is "missing", "malformed" (json.loads
\* raises on it), "list" (a JSON array of issues) or "dict" (a JSON object
\* whose "findings" entry is the array).
File(st, items) == [st |-> st, items |-> items]
MissingFile == File("missing", <<>>)

\* The run directories beneath the corpus root, in sorted() order.
RunDirs == <<"r1", "r2">>

\* _key with the keys of the two modes exchanged
KeyModesSwapped(issue, m) ==
    IF m /= "strict"
    THEN <<issue.type,
           issue.variable \o <<"|">>
           \o (IF Len(issue.expected) = 0 THEN <<>> ELSE JsonDumps(issue.expected[1]))
           \o <<"|">>
           \o (IF Len(issue.observed) = 0 THEN <<>> ELSE JsonDumps(issue.observed[1]))>>
    ELSE <<issue.type, issue.variable>>

_key(issue, m) ==
    IF m = "strict"
    THEN <<issue.type,
           issue.variable \o <<"|">>
           \o (IF Len(issue.expected) = 0 THEN <<>> ELSE JsonDumps(issue.expected[1]))
           \o <<"|">>
           \o (IF Len(issue.observed) = 0 THEN <<>> ELSE JsonDumps(issue.observed[1]))>>
    ELSE <<issue.type, issue.variable>>

\* _load_gold_and_findings(run_dir): a file that exists is parsed with
\* json.loads and nothing catches what it raises.
_load_gold_and_findings(run) ==
    IF run.gold.st = "malformed" \/ run.findings.st = "malformed"
    THEN [raised |-> TRUE, gold |-> <<>>, findings |-> <<>>]
    ELSE [raised |-> FALSE,
          gold |-> IF run.gold.st = "missing" THEN <<>> ELSE run.gold.items,
          findings |-> IF run.findings.st = "missing" THEN <<>> ELSE run.findings.items]

\* A defaultdict(int): a function on the keys touched so far.
DGet(d, t) == IF t \in DOMAIN d THEN d[t] ELSE 0
DAdd(d, n) == [t \in (DOMAIN d) \cup (DOMAIN n) |-> DGet(d, t) + DGet(n, t)]

\* The mutant of RunCounts: fp counts every predicted key.
RunCountsFpAll(gold, findings, m, acc) ==
    LET gold_keys == {_key(gold[i], m) : i \in DOMAIN gold}
        pred_keys == {_key(findings[i], m) : i \in DOMAIN findings}
        types == {k[1] : k \in gold_keys \cup pred_keys}
        gset(t) == {k[2] : k \in {kk \in gold_keys : kk[1] = t}}
        pset(t) == {k[2] : k \in {kk \in pred_keys : kk[1] = t}}
        ntp(t) == Cardinality(gset(t) \cap pset(t))
        nfp(t) == Cardinality(pset(t))
        nfn(t) == Cardinality(gset(t) \ pset(t))
    IN  [tp |-> DAdd(acc.tp, [t \in types |-> ntp(t)]),
         fp |-> DAdd(acc.fp, [t \in types |-> nfp(t)]),
         fn |-> DAdd(acc.fn, [t \in types |-> nfn(t)])]

\* The loop body with lists in place of the key sets: every record counts
RunCountsListed(gold, findings, m, acc) ==
    LET gold_keys == {_key(gold[i], m) : i \in DOMAIN gold}
        pred_keys == {_key(findings[i], m) : i \in DOMAIN findings}
        types == {k[1] : k \in gold_keys \cup pred_keys}
        ntp(t) == Cardinality({i \in DOMAIN findings :
                      _key(findings[i], m)[1] = t /\ _key(findings[i], m) \in gold_keys})
        nfp(t) == Cardinality({i \in DOMAIN findings :
                      _key(findings[i], m)[1] = t /\ _key(findings[i], m) \notin gold_keys})
        nfn(t) == Cardinality({i \in DOMAIN gold :
                      _key(gold[i], m)[1] = t /\ _key(gold[i], m) \notin pred_keys})
    IN  [tp |-> DAdd(acc.tp, [t \in types |-> ntp(t)]),
         fp |-> DAdd(acc.fp, [t \in types |-> nfp(t)]),
         fn |-> DAdd(acc.fn, [t \in types |-> nfn(t)])]

\* The body of the loop over runs (score.py lines 42-52): the key sets of
\* one run, and tp/fp/fn incremented for every type of the run.
RunCounts(gold, findings, m, acc) ==
    LET gold_keys == {_key(gold[i], m) : i \in DOMAIN gold}
        pred_keys == {_key(findings[i], m) : i \in DOMAIN findings}
        types == {k[1] : k \in gold_keys \cup pred_keys}
        gset(t) == {k[2] : k \in {kk \in gold_keys : kk[1] = t}}
        pset(t) == {k[2] : k \in {kk \in pred_keys : kk[1] = t}}
        ntp(t) == Cardinality(gset(t) \cap pset(t))
        nfp(t) == Cardinality(pset(t) \ gset(t))
        nfn(t) == Cardinality(gset(t) \ pset(t))
    IN  [tp |-> DAdd(acc.tp, [t \in types |-> ntp(t)]),
         fp |-> DAdd(acc.fp, [t \in types |-> nfp(t)]),
         fn |-> DAdd(acc.fn, [t \in types |-> nfn(t)])]

RECURSIVE ScoreRuns(_, _, _, _)
\* for run in runs: ...   (raised: an exception left the loop)
ScoreRuns(c, runs, m, acc) ==
    IF runs = <<>> THEN [raised |-> FALSE, acc |-> acc]
    ELSE LET ld == _load_gold_and_findings(c[Head(runs)])
         IN  IF ld.raised THEN [raised |-> TRUE, acc |-> acc]
             ELSE ScoreRuns(c, Tail(runs), m, RunCounts(ld.gold, ld.findings, m, acc))

\* The mutant of Metric: precision and recall divide by the other's
\* denominator.
MetricSwapped(tp, fp, fn) ==
    LET p == IF tp + fn /= 0 THEN Rat(tp, tp + fn) ELSE RatZero
        r == IF tp + fp /= 0 THEN Rat(tp, tp + fp) ELSE RatZero
        f1 == IF p[1] * r[2] + r[1] * p[2] /= 0
              THEN Rat(2 * p[1] * r[1], p[1] * r[2] + r[1] * p[2])
              ELSE RatZero
    IN  [precision |-> p, recall |-> r, f1 |-> f1]

\* precision, recall and f1 of one type (score.py lines 56-59)
Metric(tp, fp, fn) ==
    LET p == IF tp + fp /= 0 THEN Rat(tp, tp + fp) ELSE RatZero
        r == IF tp + fn /= 0 THEN Rat(tp, tp + fn) ELSE RatZero
        \* 2*p*r / (p+r) with p = a/b, r = c/d is 2ac / (ad + cb)
        f1 == IF p[1] * r[2] + r[1] * p[2] /= 0
              THEN Rat(2 * p[1] * r[1], p[1] * r[2] + r[1] * p[2])
              ELSE RatZero
    IN  [precision |-> p, recall |-> r, f1 |-> f1]

EmptyCounts == [tp |-> <<>>, fp |-> <<>>, fn |-> <<>>]

\* score_corpus(corpus_dir, mode): [st |-> "ok", metrics |-> type -> metric]
\* or [st |-> "raised"] when an exception propagates to the caller.
score_corpus(c, m) ==
    LET runs == SelectSeqBy(RunDirs, {r \in DOMAIN c : c[r].gold.st /= "missing"})
        sc == ScoreRuns(c, runs, m, EmptyCounts)
        ts == (DOMAIN sc.acc.tp) \cup (DOMAIN sc.acc.fp) \cup (DOMAIN sc.acc.fn)
    IN  IF sc.raised THEN [st |-> "raised", metrics |-> <<>>]
        ELSE [st |-> "ok",
              metrics |-> [t \in ts |-> Metric(DGet(sc.acc.tp, t), DGet(sc.acc.fp, t),
                                               DGet(sc.acc.fn, t))]]

-----------------------------------------------------------------------------
(* Dictionary and dataset files: dd_eval/schema.py, dd_eval/util.py,       *)
(* dd_val/parse.py                                                         *)
(*                                                                         *)
(* A dictionary row is a record over the REDCap headers that some code of  *)
(* the repository reads; the other nine headers (form_name, section_header,*)
(* field_label, text_validation_min/max, custom_alignment, question_number,*)
(* matrix_ranking, field_annotation) are carried through unread and are    *)
(* left out.  A data row in memory is an insertion-ordered dict: a         *)
(* sequence of <<column, value>> pairs.  A dataset file is [header, rows]: *)
(* the header line and one sequence of values per line.                    *)

HEADERS ==
    <<"variable_name", "field_type", "choices_calculations_or_slider_labels",
      "field_note", "text_validation_type_or_show_slider_number", "identifier",
      "branching_logic", "required_field", "matrix_group_name">>

\* empty_row(): every header ""
empty_row == [h \in Range(HEADERS) |-> <<>>]

\* An insertion-ordered dict as a sequence of <<key, value>> pairs
OKeys(d) == [i \in DOMAIN d |-> d[i][1]]
OHas(d, k) == \E i \in DOMAIN d : d[i][1] = k
\* d.get(k, default)
OGet(d, k, default) == IF OHas(d, k) THEN d[CHOOSE i \in DOMAIN d : d[i][1] = k][2] ELSE default
\* d[k] = v: an existing key keeps its place, a new one goes last
OSet(d, k, v) ==
    IF OHas(d, k) THEN [i \in DOMAIN d |-> IF d[i][1] = k THEN <<k, v>> ELSE d[i]]
    ELSE Append(d, <<k, v>>)
\* d.pop(k) for a key that may be absent: the dict without it
ODel(d, k) == SelectSeq(d, LAMBDA kv : kv[1] /= k)

\* str(n) for n >= 0
RECURSIVE ToDigits(_)
ToDigits(n) ==
    IF n < 10 THEN <<Alphabet[Rank("0") + n]>>
    ELSE Append(ToDigits(n \div 10), Alphabet[Rank("0") + (n % 10)])

\* str.lower(), on the symbols that have an upper-case letter the code
\* lowers before it compares
LowerSym(c) ==
    CASE c = "Y" -> "y"
      [] c = "Units=" -> "units="
      [] c = "CM" -> "cm"
      [] OTHER -> c
Lower(s) == [i \in DOMAIN s |-> LowerSym(s[i])]

\* write_csv(path, rows, headers): the header line, then for every row the
\* value of each header column, "" for a column the row lacks; keys of the
\* row that are not in headers are dropped (extrasaction="ignore")
write_csv(rows, headers) ==
    [header |-> headers,
     rows |-> [i \in DOMAIN rows |-> [j \in DOMAIN headers |-> OGet(rows[i], headers[j], <<>>)]]]

\* the position of the last column named c
ColumnIndex(header, c) ==
    CHOOSE j \in DOMAIN header :
        header[j] = c /\ \A k \in (j + 1)..Len(header) : header[k] /= c

\* csv.DictReader over a dataset file: one dict per line, keyed by the
\* header; a column name that occurs twice keeps its last value.  (Lines
\* are as long as the header: the files are written by csv.DictWriter.)
DictReader(file) ==
    [i \in DOMAIN file.rows |->
        [c \in Range(file.header) |-> file.rows[i][ColumnIndex(file.header, c)]]]

\* load_dataset_headers(path): the first line ([] for an empty file)
load_dataset_headers(file) == file.header

\* iter_dataset_rows(path)
iter_dataset_rows(file) == DictReader(file)

\* row.get(c, "") or "" on a DictReader row
RowGet(row, c) == IF c \in DOMAIN row THEN row[c] ELSE <<>>

DictField(variable, field_type, choices, validation, identifier, required, branching_logic, matrix_group, raw) ==
    [variable |-> variable, field_type |-> field_type, choices |-> choices,
     validation |-> validation, identifier |-> identifier, required |-> required,
     branching_logic |-> branching_logic, matrix_group |-> matrix_group, raw |-> raw]

T_radio == <<"radio">>
T_dropdown == <<"dropdown">>
T_checkbox == <<"checkbox">>
T_yesno == <<"yesno">>
T_truefalse == <<"truefalse">>
T_text == <<"text">>

RECURSIVE ParseChoiceParts(_, _)
\* the loop of _parse_choices over raw.split("|")
ParseChoiceParts(parts, out) ==
    IF parts = <<>> THEN out
    ELSE LET part == Strip(Head(parts))
             cl == Split1(part, ",")
         IN  IF part = <<>> THEN ParseChoiceParts(Tail(parts), out)
             ELSE IF Len(cl) = 2
                  THEN ParseChoiceParts(Tail(parts), Append(out, <<Strip(cl[1]), Strip(cl[2])>>))
                  ELSE ParseChoiceParts(Tail(parts), Append(out, <<ToDigits(Len(out) + 1), part>>))

\* _parse_choices(field_type, raw): the (code, label) pairs of a field
_parse_choices(field_type, raw0) ==
    LET raw == Strip(raw0)
    IN  IF field_type = T_yesno THEN << <<(<<"0">>), <<"No">> >>, <<(<<"1">>), <<"Yes">> >> >>
        ELSE IF field_type = T_truefalse
             THEN << <<(<<"0">>), <<"False">> >>, <<(<<"1">>), <<"True">> >> >>
        ELSE IF field_type \notin {T_radio, T_dropdown, T_checkbox} THEN <<>>
        ELSE IF raw = <<>> THEN <<>>
        ELSE ParseChoiceParts(Split(raw, "|"), <<>>)

\* the body of the loop of load_dictionary: one DictField per row
LoadField(r) ==
    LET field_type == Strip(r.field_type)
    IN  DictField(Strip(r.variable_name),
                  field_type,
                  _parse_choices(field_type, r.choices_calculations_or_slider_labels),
                  Strip(r.text_validation_type_or_show_slider_number),
                  Lower(Strip(r.identifier)) = <<"y">>,
                  Lower(Strip(r.required_field)) = <<"y">>,
                  Strip(r.branching_logic),
                  Strip(r.matrix_group_name),
                  r)

\* the last position of s that satisfies variable = v
LastWith(fields, v) ==
    CHOOSE i \in DOMAIN fields :
        /\ fields[i].variable = v
        /\ \A j \in DOMAIN fields : fields[j].variable = v => j <= i

\* load_dictionary(path): rows without a variable name are skipped; by_var
\* and choices keep the last field of a name that is declared twice
load_dictionary(rows) ==
    LET kept == SelectSeq(rows, LAMBDA r : Strip(r.variable_name) /= <<>>)
        fields == [i \in DOMAIN kept |-> LoadField(kept[i])]
        names == {fields[i].variable : i \in DOMAIN fields}
    IN  [fields |-> fields,
         by_var |-> [v \in names |-> fields[LastWith(fields, v)]],
         choices |-> [v \in names |-> fields[LastWith(fields, v)].choices]]

\* a str of digits only, at least one
AllDigits(s) == s /= <<>> /\ \A i \in DOMAIN s : s[i] \in Digits

\* digits with single "_" between them, as int() and float() accept
DigitRun(s) ==
    /\ s /= <<>>
    /\ s[1] \in Digits /\ s[Len(s)] \in Digits
    /\ \A i \in DOMAIN s : s[i] \in Digits \cup {"_"}
    /\ \A i \in 1..(Len(s) - 1) : ~(s[i] = "_" /\ s[i + 1] = "_")

Unsigned(s) == IF s /= <<>> /\ Head(s) \in {"+", "-"} THEN Tail(s) ELSE s

\* is_int(s): int(s) does not raise
is_int(s) == DigitRun(Unsigned(Strip(s)))

\* is_num(s): float(s) does not raise: inf, nan, or a decimal with an
\* optional fraction and an optional exponent
is_num(s) ==
    LET t == Unsigned(Strip(s))
        me == Split1(t, "e")
        m == Split1(me[1], ".")
        mantissa == IF Len(m) = 1 THEN DigitRun(m[1])
                    ELSE /\ m[1] = <<>> \/ DigitRun(m[1])
                         /\ m[2] = <<>> \/ DigitRun(m[2])
                         /\ m[1] /= <<>> \/ m[2] /= <<>>
    IN  \/ t \in {<<"inf">>, <<"nan">>}
        \/ /\ mantissa
           /\ Len(me) = 2 => DigitRun(Unsigned(me[2]))

\* is_date_ymd(s): ^\d{4}-\d{2}-\d{2}$
is_date_ymd(s) ==
    LET p == Split(s, "-")
    IN  /\ Len(p) = 3
        /\ AllDigits(p[1]) /\ Len(p[1]) = 4
        /\ AllDigits(p[2]) /\ Len(p[2]) = 2
        /\ AllDigits(p[3]) /\ Len(p[3]) = 2

\* _mdy: ^\d{1,2}/\d{1,2}/\d{4}$
is_date_mdy(s) ==
    LET p == Split(s, "/")
    IN  /\ Len(p) = 3
        /\ AllDigits(p[1]) /\ Len(p[1]) \in {1, 2}
        /\ AllDigits(p[2]) /\ Len(p[2]) \in {1, 2}
        /\ AllDigits(p[3]) /\ Len(p[3]) = 4

guess_date_format(s) ==
    IF is_date_mdy(s) THEN <<"date_mdy">>
    ELSE IF is_date_ymd(s) THEN <<"date_ymd">>
    ELSE <<"string">>
-----------------------------------------------------------------------------
(* The check engine: dd_val/checks.py                                      *)
(* Every check takes the loaded dictionary dd and, where the code takes    *)
(* dataset_path, the dataset file ds.                                      *)

\* Finding(...): the optional fields are None (<<>>) or Some(x)
Finding(t, variable, severity, where, expected, observed, examples, suggestion, rows_affected) ==
    [type |-> t, variable |-> variable, severity |-> severity, where |-> where,
     expected |-> expected, observed |-> observed, examples |-> examples,
     suggestion |-> suggestion, rows_affected |-> rows_affected]

\* Finding.as_dict(): an absent key is None; empty examples and an empty
\* suggestion are left out and at most five examples are written.  (The
\* dicts of findings.json have one more key, observed_added, which only
\* the since-last-run findings of main set.)
as_dict(f) ==
    [type |-> f.type, variable |-> f.variable, severity |-> f.severity, where |-> f.where,
     expected |-> f.expected, observed |-> f.observed,
     examples |-> IF f.examples = None \/ f.examples[1] = <<>> THEN None
                  ELSE Some(Take(f.examples[1], 5)),
     suggestion |-> IF f.suggestion = None \/ f.suggestion[1] = <<>> THEN None ELSE f.suggestion,
     rows_affected |-> f.rows_affected,
     observed_added |-> None]

WhereCol(col) == << <<(<<"dataset_column">>), col>> >>

\* Thresholds, as exact fractions
TYPE_SUCCESS_INT == Rat(95, 100)
TYPE_SUCCESS_NUM == Rat(95, 100)
TYPE_SUCCESS_DATE == Rat(95, 100)
MISSINGNESS_SPIKE_THRESHOLD == Rat(70, 100)
REQUIRED_MISSING_RATE_THRESHOLD == Rat(5, 100)
REDCAP_META_COLUMNS ==
    {<<"redcap_event_name">>, <<"redcap_repeat_instrument">>, <<"redcap_repeat_instance">>}

_RENAME_HINTS ==
    << <<(<<"bp_sys">>), <<(<<"sbp">>)>> >>,
       <<(<<"bp_dia">>), <<(<<"dbp">>)>> >>,
       <<(<<"height_cm">>), <<(<<"ht_cm">>), <<"heightcm">> >> >> >>

\* _checkbox_expected_cols(f): var___code for every declared code
_checkbox_expected_cols(f) ==
    [i \in DOMAIN f.choices |-> f.variable \o <<"___">> \o f.choices[i][1]]

\* no original counts as covered: the rename hints are not consulted
NoneCovered(dd, ds_cols) == {}

\* the originals of _RENAME_HINTS that the dictionary declares and one of
\* whose hints is a dataset column
covered_by_rename(dd, ds_cols) ==
    {_RENAME_HINTS[i][1] : i \in {j \in DOMAIN _RENAME_HINTS :
        /\ _RENAME_HINTS[j][1] \in DOMAIN dd.by_var
        /\ \E h \in Range(_RENAME_HINTS[j][2]) : h \in ds_cols}}

\* the first loop of check_columns, for one field
MissingColumnsOf(f, ds_cols, covered) ==
    LET mk(col) == Finding(<<"missing_column_in_data">>, col, <<"error">>, WhereCol(col),
                           None, None, None, None, None)
        exp == _checkbox_expected_cols(f)
    IN  IF f.field_type = T_checkbox
        THEN Flatten([i \in DOMAIN exp |-> IF exp[i] \notin ds_cols THEN <<mk(exp[i])>> ELSE <<>>])
        ELSE IF f.variable \notin ds_cols /\ f.variable \notin covered
             THEN <<mk(f.variable)>> ELSE <<>>

\* the columns check_columns explains by the dictionary
AllowedColumns(dd) ==
    UNION {IF dd.fields[i].field_type = T_checkbox
           THEN Range(_checkbox_expected_cols(dd.fields[i]))
           ELSE {dd.fields[i].variable} : i \in DOMAIN dd.fields}
    \cup UNION {Range(_RENAME_HINTS[i][2]) :
                   i \in {j \in DOMAIN _RENAME_HINTS : _RENAME_HINTS[j][1] \in DOMAIN dd.by_var}}
    \cup REDCAP_META_COLUMNS

\* col.split("___", 1)[0]
ColBase(col) == Split1(col, "___")[1]

check_columns(dd, dataset_cols) ==
    LET ds_cols == Range(dataset_cols)
        covered == covered_by_rename(dd, ds_cols)
        allowed == AllowedColumns(dd)
        checkbox_vars == {dd.fields[i].variable :
                             i \in {j \in DOMAIN dd.fields : dd.fields[j].field_type = T_checkbox}}
        extra(col) == IF ColBase(col) \in checkbox_vars THEN <<>>
                      ELSE IF col \notin allowed
                           THEN <<Finding(<<"extra_column_in_data">>, col, <<"warn">>,
                                          WhereCol(col), None, None, None, None, None)>>
                           ELSE <<>>
    IN  Flatten([i \in DOMAIN dd.fields |-> MissingColumnsOf(dd.fields[i], ds_cols, covered)])
        \o Flatten([i \in DOMAIN dataset_cols |-> extra(dataset_cols[i])])

\* _collect_values(path, cols)[c]: the stripped value of column c in every
\* row of iter_dataset_rows ("" where the rows have no such column).  The
\* limit of 50000 rows is never reached.
_collect_values(ds, c) ==
    IF c \in Range(ds.header)
    THEN LET j == ColumnIndex(ds.header, c)
         IN  [i \in DOMAIN ds.rows |-> Strip(ds.rows[i][j])]
    ELSE [i \in DOMAIN ds.rows |-> <<>>]

NonEmpty(vals) == SelectSeq(vals, LAMBDA v : v /= <<>>)

\* _examples(values, predicate): the first five values that satisfy it;
\* bad is the set of values that do
_examples(values, bad) == Take(SelectSeqBy(values, bad), 5)

check_checkbox_mismatch(dd, dataset_cols) ==
    LET ds_cols == Range(dataset_cols)
        one(f) ==
            LET expected == Range(_checkbox_expected_cols(f))
                added == SortStrs({c \in ds_cols :
                             StartsWith(c, f.variable \o <<"___">>) /\ c \notin expected})
                missing == SortStrs({c \in expected : c \notin ds_cols})
                obs == (IF added /= <<>>
                        THEN << <<(<<"observed_added">>), PList([i \in DOMAIN added |-> PStr(added[i])])>> >>
                        ELSE <<>>)
                       \o (IF missing /= <<>>
                           THEN << <<(<<"expected_missing">>), PList([i \in DOMAIN missing |-> PStr(missing[i])])>> >>
                           ELSE <<>>)
            IN  IF f.field_type /= T_checkbox THEN <<>>
                ELSE IF added /= <<>> \/ missing /= <<>>
                     THEN <<Finding(<<"checkbox_expansion_mismatch">>, f.variable, <<"error">>,
                                    WhereCol(f.variable), None, Some(PMap(obs)), None, None, None)>>
                     ELSE <<>>
    IN  Flatten([i \in DOMAIN dd.fields |-> one(dd.fields[i])])

\* _build_rename_map(dict_, dataset_cols): original -> the first of its
\* hints that is a dataset column, for declared originals that are absent
_build_rename_map(dd, dataset_cols) ==
    LET ds == Range(dataset_cols)
        hit(i) == /\ _RENAME_HINTS[i][1] \in DOMAIN dd.by_var
                  /\ _RENAME_HINTS[i][1] \notin ds
                  /\ \E h \in Range(_RENAME_HINTS[i][2]) : h \in ds
        first(i) == LET hs == SelectSeqBy(_RENAME_HINTS[i][2], ds) IN hs[1]
        idx == {i \in DOMAIN _RENAME_HINTS : hit(i)}
    IN  [o \in {_RENAME_HINTS[i][1] : i \in idx} |->
            first(CHOOSE i \in idx : _RENAME_HINTS[i][1] = o)]

check_rename_drift(dd, dataset_cols) ==
    LET m == _build_rename_map(dd, dataset_cols)
        one(i) == LET orig == _RENAME_HINTS[i][1]
                  IN  IF orig \in DOMAIN m
                      THEN <<Finding(<<"rename_drift">>, orig, <<"warn">>, WhereCol(m[orig]), None,
                                     Some(PMap(<< <<(<<"new">>), PStr(m[orig])>> >>)),
                                     None, None, None)>>
                      ELSE <<>>
    IN  Flatten([i \in DOMAIN _RENAME_HINTS |-> one(i)])

\* the fields check_types looks at, keyed by variable as var_to_dscol is:
\* a variable declared twice keeps its first place and its last validation
TypedFields(dd, dataset_cols, rename_map) ==
    LET q(i) == /\ dd.fields[i].field_type = T_text
                /\ dd.fields[i].validation \in
                       {<<"integer">>, <<"number">>, <<"date_ymd">>, <<"date_mdy">>, <<"datetime_ymd">>}
                /\ \/ dd.fields[i].variable \in Range(dataset_cols)
                   \/ dd.fields[i].variable \in DOMAIN rename_map
        firsts == SelectSeq([i \in DOMAIN dd.fields |-> i],
                      LAMBDA i : q(i) /\ \A j \in 1..(i - 1) :
                                     ~(q(j) /\ dd.fields[j].variable = dd.fields[i].variable))
        lastOf(v) == CHOOSE i \in DOMAIN dd.fields :
                       /\ q(i) /\ dd.fields[i].variable = v
                       /\ \A j \in DOMAIN dd.fields :
                              (q(j) /\ dd.fields[j].variable = v) => j <= i
    IN  [k \in DOMAIN firsts |->
            LET v == dd.fields[firsts[k]].variable
            IN  [var |-> v,
                 dscol |-> IF v \in Range(dataset_cols) THEN v ELSE rename_map[v],
                 exp |-> dd.fields[lastOf(v)].validation]]

\* a success rate at or below the floor
AtOrBelowFloor(ok, n, threshold) == ~RatLess(threshold, Rat(ok, n))

\* ok / n < TYPE_SUCCESS_* (lines 309, 326, 343): the quotient of two
\* counts of at most 50000 is a float below the float 0.95 exactly when
\* the fraction is below 95/100
BelowFloor(ok, n, threshold) == RatLess(Rat(ok, n), threshold)

\* the body of the loop of check_types for one variable
TypeFindingOf(ds, tf) ==
    LET vlist == NonEmpty(_collect_values(ds, tf.dscol))
        n == Len(vlist)
        good == IF tf.exp = <<"integer">> THEN {v \in Range(vlist) : is_int(v)}
                ELSE IF tf.exp = <<"number">> THEN {v \in Range(vlist) : is_num(v)}
                ELSE {v \in Range(vlist) : is_date_ymd(v)}
        ok == CountIn(vlist, good)
        isDate == tf.exp \in {<<"date_ymd">>, <<"datetime_ymd">>}
        observed == IF isDate /\ \E v \in Range(vlist) : guess_date_format(v) = <<"date_mdy">>
                    THEN <<"date_mdy">> ELSE <<"string">>
        bad == IF isDate THEN {v \in Range(vlist) : guess_date_format(v) /= tf.exp}
               ELSE Range(vlist) \ good
        threshold == IF tf.exp = <<"integer">> THEN TYPE_SUCCESS_INT
                     ELSE IF tf.exp = <<"number">> THEN TYPE_SUCCESS_NUM
                     ELSE TYPE_SUCCESS_DATE
    IN  IF vlist = <<>> \/ tf.exp = <<"date_mdy">> THEN <<>>
        ELSE IF BelowFloor(ok, n, threshold)
             THEN <<Finding(<<"type_mismatch">>, tf.var, <<"error">>, WhereCol(tf.dscol),
                            Some(PStr(IF isDate THEN <<"date_ymd">> ELSE <<"numeric">>)),
                            Some(PStr(observed)),
                            Some(_examples(vlist, bad)), None, Some(n - ok))>>
             ELSE <<>>

check_types(dd, ds, dataset_cols) ==
    LET tfs == TypedFields(dd, dataset_cols, _build_rename_map(dd, dataset_cols))
    IN  Flatten([k \in DOMAIN tfs |-> TypeFindingOf(ds, tfs[k])])

CatTypes == {T_radio, T_dropdown, T_yesno, T_truefalse}

\* the codes of a list of choices, without their labels
ChoiceCodes(choices) == [i \in DOMAIN choices |-> choices[i][1]]

\* ["code=label", ...] of a list of choices
ChoicePairs(choices) == [i \in DOMAIN choices |-> choices[i][1] \o <<"=">> \o choices[i][2]]

check_domains(dd, ds, dataset_cols) ==
    LET one(f) ==
            LET allowed == {f.choices[i][1] : i \in DOMAIN f.choices}
                vals == _collect_values(ds, f.variable)
                unexpected == SortStrs({v \in Range(vals) : v /= <<>> /\ v \notin allowed})
                pairs == ChoicePairs(dd.choices[f.variable])
            IN  IF ~(f.field_type \in CatTypes /\ f.variable \in Range(dataset_cols)) THEN <<>>
                ELSE IF unexpected /= <<>>
                     THEN <<Finding(<<"domain_mismatch">>, f.variable, <<"error">>,
                                    WhereCol(f.variable),
                                    Some(PList([i \in DOMAIN pairs |-> PStr(pairs[i])])),
                                    Some(PList([i \in DOMAIN unexpected |-> PStr(unexpected[i])])),
                                    Some(Take(unexpected, 5)), None,
                                    Some(CountIn(vals, Range(unexpected))))>>
                     ELSE <<>>
    IN  Flatten([i \in DOMAIN dd.fields |-> one(dd.fields[i])])

\* A Counter as the sequence of its <<key, count>> entries in insertion
\* order: the counts of the values of vals that are in the set counted
RECURSIVE CounterOf(_, _)
CounterOf(vals, acc) ==
    IF vals = <<>> THEN acc
    ELSE CounterOf(Tail(vals), OSet(acc, Head(vals), OGet(acc, Head(vals), 0) + 1))

\* Counter.most_common() without its limit: every key, by count
AllCommon(cnt, n) == cnt

RECURSIVE most_common(_, _)
\* Counter.most_common(n): by count, largest first; equal counts keep
\* their insertion order
most_common(cnt, n) ==
    IF cnt = <<>> \/ n = 0 THEN <<>>
    ELSE LET i == CHOOSE i \in DOMAIN cnt :
                     /\ \A j \in DOMAIN cnt : cnt[j][2] <= cnt[i][2]
                     /\ \A j \in 1..(i - 1) : cnt[j][2] < cnt[i][2]
         IN  <<cnt[i]>> \o most_common(SubSeq(cnt, 1, i - 1) \o SubSeq(cnt, i + 1, Len(cnt)), n - 1)

\* the values of vals that already occurred at an earlier position
RepeatsOf(vals) ==
    SelectSeq([i \in DOMAIN vals |-> IF \E j \in 1..(i - 1) : vals[j] = vals[i]
                                     THEN Some(vals[i]) ELSE None],
              LAMBDA o : o /= None)

check_primary_key(dd, ds, dataset_cols) ==
    LET pk == IF <<"record_id">> \in Range(dataset_cols) THEN Some(<<"record_id">>)
              ELSE IF dd.fields /= <<>> THEN Some(dd.fields[1].variable)
              ELSE None
        keys == NonEmpty(_collect_values(ds, pk[1]))
        reps == RepeatsOf(keys)
        dups == CounterOf([i \in DOMAIN reps |-> reps[i][1]], <<>>)
        top == most_common(dups, 5)
    IN  IF pk = None \/ pk[1] = <<>> THEN <<>>
        ELSE IF pk[1] \notin Range(dataset_cols)
             THEN <<Finding(<<"missing_primary_key_column">>, pk[1], <<"error">>, WhereCol(pk[1]),
                            None, None, None, None, None)>>
        ELSE IF dups /= <<>>
             THEN <<Finding(<<"duplicate_primary_key_values">>, pk[1], <<"error">>, WhereCol(pk[1]),
                            None, None, Some(OKeys(top)), None,
                            Some(SumSeq([i \in DOMAIN dups |-> dups[i][2]])))>>
             ELSE <<>>

\* round(n / d, 3) in thousandths, ties to even.  (A tie needs d to be a
\* multiple of 16; for the row counts of the model, below 80, n/d is then
\* a double exactly and Python rounds the tie to even.)
Round3(n, d) ==
    LET q == (1000 * n) \div d
        r == (1000 * n) % d
    IN  IF 2 * r > d THEN q + 1
        ELSE IF 2 * r < d THEN q
        ELSE IF q % 2 = 0 THEN q ELSE q + 1

\* numbers in a payload: an int, and a float given in thousandths
PInt(n) == [k |-> "int", v |-> n]
PNum(thousandths) == [k |-> "num", v |-> thousandths]

check_required_fields(dd, ds, dataset_cols) ==
    LET one(f) ==
            LET col_vals == _collect_values(ds, f.variable)
                total == Len(col_vals)
                missing == CountIn(col_vals, {<<>>})
            IN  IF ~(f.required /\ f.variable \in Range(dataset_cols)) THEN <<>>
                ELSE IF col_vals = <<>> THEN <<>>
                ELSE IF total >= 20 /\ RatLeq(REQUIRED_MISSING_RATE_THRESHOLD, Rat(missing, total))
                     THEN <<Finding(<<"required_field_missing_rate_high">>, f.variable, <<"error">>,
                                    WhereCol(f.variable), None,
                                    Some(PMap(<< <<(<<"missing_rate">>), PNum(Round3(missing, total))>> >>)),
                                    None, None, Some(missing))>>
                     ELSE <<>>
    IN  Flatten([i \in DOMAIN dd.fields |-> one(dd.fields[i])])

check_missingness_spike(ds, dataset_cols) ==
    LET one(col) ==
            LET vals == _collect_values(ds, col)
                total == Len(vals)
                empties == CountIn(vals, {<<>>})
            IN  IF total >= 50 /\ RatLeq(MISSINGNESS_SPIKE_THRESHOLD, Rat(empties, Max(total, 1)))
                THEN <<Finding(<<"missingness_spike">>, col, <<"warn">>, WhereCol(col),
                               None, None, None, None, Some(empties))>>
                ELSE <<>>
    IN  Flatten([i \in DOMAIN dataset_cols |-> one(dataset_cols[i])])

RECURSIVE DigitsVal(_)
\* the int a run of digits (with "_" between them) denotes
DigitsVal(s) ==
    IF s = <<>> THEN 0
    ELSE IF s[Len(s)] = "_" THEN DigitsVal(SubSeq(s, 1, Len(s) - 1))
    ELSE 10 * DigitsVal(SubSeq(s, 1, Len(s) - 1)) + DigitVal(s[Len(s)])

RECURSIVE Pow10(_)
Pow10(k) == IF k = 0 THEN 1 ELSE 10 * Pow10(k - 1)

\* float(s) for an s that is_num accepts: [kind |-> "nan"], or
\* [kind |-> "inf", neg], or [kind |-> "fin", neg, m, e] for the value
\* (-1)^neg * m * 10^e.  (The decimals of the model have few digits: the
\* double nearest to one is on the same side of 100 as the decimal.)
FloatOf(s) ==
    LET t0 == Strip(s)
        neg == t0 /= <<>> /\ Head(t0) = "-"
        t == Unsigned(t0)
        me == Split1(t, "e")
        m == Split1(me[1], ".")
        frac == IF Len(m) = 2 THEN SelectSeq(m[2], LAMBDA c : c /= "_") ELSE <<>>
        ex == IF Len(me) = 2
              THEN (IF Head(me[2]) = "-" THEN 0 - DigitsVal(Unsigned(me[2]))
                    ELSE DigitsVal(Unsigned(me[2])))
              ELSE 0
    IN  IF t = <<"nan">> THEN [kind |-> "nan"]
        ELSE IF t = <<"inf">> THEN [kind |-> "inf", neg |-> neg]
        ELSE [kind |-> "fin", neg |-> neg, m |-> DigitsVal(m[1] \o frac), e |-> ex - Len(frac)]

\* float(s) < 100.0
LessThan100(x) ==
    CASE x.kind = "nan" -> FALSE
      [] x.kind = "inf" -> x.neg
      [] x.kind = "fin" ->
            \/ x.neg
            \/ IF x.e >= 0 THEN x.m * Pow10(x.e) < 100 ELSE x.m < 100 * Pow10(0 - x.e)

\* float(s) >= 100.0
AtLeast100(x) == x.kind /= "nan" /\ ~LessThan100(x)

\* note.split("units=", 1)[1].split()[0]: what follows the first "units="
\* up to the next blank.  (Every note of the model that holds "units="
\* holds a unit after it.)
UnitOf(note) ==
    LET rest == LStrip(Split1(note, "units=")[2])
    IN  Split1(rest, " ")[1]

\* the fields check_unit_anomaly looks at, keyed by variable as note_units
\* is: a variable declared twice keeps its first place and its last unit
NoteUnits(dd, dataset_cols) ==
    LET note(i) == Lower(dd.fields[i].raw.field_note)
        q(i) == Contains(note(i), <<"units=">>) /\ dd.fields[i].variable \in Range(dataset_cols)
        firsts == SelectSeq([i \in DOMAIN dd.fields |-> i],
                      LAMBDA i : q(i) /\ \A j \in 1..(i - 1) :
                                     ~(q(j) /\ dd.fields[j].variable = dd.fields[i].variable))
        lastOf(v) == CHOOSE i \in DOMAIN dd.fields :
                       /\ q(i) /\ dd.fields[i].variable = v
                       /\ \A j \in DOMAIN dd.fields :
                              (q(j) /\ dd.fields[j].variable = v) => j <= i
    IN  [k \in DOMAIN firsts |->
            LET v == dd.fields[firsts[k]].variable
            IN  <<v, UnitOf(note(lastOf(v)))>>]

check_unit_anomaly(dd, ds, dataset_cols) ==
    LET nu == NoteUnits(dd, dataset_cols)
        one(col, unit) ==
            LET vals == SelectSeq(_collect_values(ds, col), LAMBDA v : v /= <<>> /\ is_num(v))
                vnums == [i \in DOMAIN vals |-> FloatOf(vals[i])]
                n == Len(vnums)
                small == Cardinality({i \in DOMAIN vnums : LessThan100(vnums[i])})
                large == Cardinality({i \in DOMAIN vnums : AtLeast100(vnums[i])})
            IN  IF n < 20 THEN <<>>
                ELSE IF /\ unit = <<"cm">>
                        /\ RatLeq(Rat(5, 100), Rat(small, n))
                        /\ RatLeq(Rat(5, 10), Rat(large, n))
                     THEN <<Finding(<<"unit_anomaly">>, col, <<"warn">>, WhereCol(col),
                                    Some(PMap(<< <<(<<"unit">>), PStr(unit)>> >>)),
                                    Some(PMap(<< <<(<<"note">>), PStr(<<"subset appears inches">>)>> >>)),
                                    None, None, Some(small))>>
                     ELSE <<>>
    IN  Flatten([k \in DOMAIN nu |-> one(nu[k][1], nu[k][2])])

BranchCondition == <<"[sex]", " ", "=", " ", "'1'">>

check_branching(dd, ds, dataset_cols) ==
    LET cond == IF <<"pregnant">> \in DOMAIN dd.by_var
                THEN dd.by_var[<<"pregnant">>].branching_logic ELSE <<>>
        sex == _collect_values(ds, <<"sex">>)
        preg == _collect_values(ds, <<"pregnant">>)
        affected == Cardinality({i \in DOMAIN sex : sex[i] = <<"0">> /\ preg[i] = <<"1">>})
    IN  IF <<"sex">> \notin Range(dataset_cols) \/ <<"pregnant">> \notin Range(dataset_cols)
        THEN <<>>
        ELSE IF ~Contains(cond, <<"[sex]">>) THEN <<>>
        ELSE IF affected /= 0
             THEN <<Finding(<<"branching_mismatch">>, <<"pregnant">>, <<"warn">>,
                            WhereCol(<<"pregnant">>),
                            Some(PMap(<< <<(<<"condition">>), PStr(BranchCondition)>> >>)),
                            None, None, None, Some(affected))>>
             ELSE <<>>

check_matrix_consecutive(dd) ==
    LET grp(i) == dd.fields[i].matrix_group
        firsts == SelectSeq([i \in DOMAIN dd.fields |-> i],
                      LAMBDA i : grp(i) /= <<>> /\ \A j \in 1..(i - 1) : grp(j) /= grp(i))
        one(g) ==
            LET positions == {i \in DOMAIN dd.fields : grp(i) = g}
                consecutive == \A p \in positions :
                                   (\E q \in positions : q > p) => (p + 1) \in positions
            IN  IF ~consecutive
                THEN <<Finding(<<"matrix_nonconsecutive">>, g, <<"warn">>,
                               << <<(<<"matrix_group">>), g>> >>, None, None, None, None, None)>>
                ELSE <<>>
    IN  Flatten([k \in DOMAIN firsts |-> one(grp(firsts[k]))])

\* detect_export_mode_labels(...)[1]: the findings of the returned pair
detect_export_mode_labels(dd, ds, dataset_cols) ==
    LET cat == SelectSeq(dd.fields,
                   LAMBDA f : f.field_type \in CatTypes /\ f.variable \in Range(dataset_cols))
        vlist(f) == NonEmpty(_collect_values(ds, f.variable))
        n_code(f) == CountIn(vlist(f), {f.choices[i][1] : i \in DOMAIN f.choices})
        n_label(f) == CountIn(vlist(f), {f.choices[i][2] : i \in DOMAIN f.choices})
        checked == SelectSeq(cat, LAMBDA f : vlist(f) /= <<>>)
        total_label == SumSeq([i \in DOMAIN checked |-> n_label(checked[i])])
        total_nonempty == SumSeq([i \in DOMAIN checked |-> Len(vlist(checked[i]))])
        majority == SelectSeq(checked,
                        LAMBDA f : /\ RatLeq(Rat(8, 10), Rat(n_label(f), Len(vlist(f))))
                                   /\ n_label(f) > n_code(f))
        fields_checked == Len(checked)
        label_majority_fields == Len(majority)
        labels_detected ==
            /\ RatLeq(Rat(6, 10), Rat(total_label, Max(1, total_nonempty)))
            /\ label_majority_fields >= 2
            /\ total_label >= 20
    IN  IF cat = <<>> \/ fields_checked = 0 \/ ~labels_detected THEN <<>>
        ELSE <<Finding(<<"export_mode_labels_detected">>, <<"dataset">>, <<"info">>,
                       << <<(<<"mode">>), <<"labels">> >> >>, None,
                       Some(PMap(<< <<(<<"fields_checked">>), PInt(fields_checked)>>,
                                    <<(<<"label_majority_fields">>), PInt(label_majority_fields)>>,
                                    <<(<<"label_rate">>),
                                      PNum(Round3(total_label, Max(1, total_nonempty)))>> >>)),
                       None,
                       Some(<<"Re-export with 'raw' (codes) or map labels to codes.">>), None)>>

RECURSIVE JoinWith(_, _)
\* sep.join(parts)
JoinWith(parts, sep) ==
    IF parts = <<>> THEN <<>>
    ELSE IF Len(parts) = 1 THEN Head(parts)
    ELSE Head(parts) \o sep \o JoinWith(Tail(parts), sep)

check_longitudinal_context(ds, dataset_cols) ==
    LET present == SortStrs({c \in REDCAP_META_COLUMNS : c \in Range(dataset_cols)})
        has(c) == c \in Range(present)
        events == IF has(<<"redcap_event_name">>) THEN _collect_values(ds, <<"redcap_event_name">>)
                  ELSE <<>>
        ev_counts == CounterOf(NonEmpty(events), <<>>)
        top == most_common(ev_counts, 3)
        total == Len(events)
        rep_inst == IF has(<<"redcap_repeat_instrument">>)
                    THEN _collect_values(ds, <<"redcap_repeat_instrument">>) ELSE <<>>
        rep_idx == IF has(<<"redcap_repeat_instance">>)
                   THEN _collect_values(ds, <<"redcap_repeat_instance">>) ELSE <<>>
        at(s, i) == IF i <= Len(s) THEN s[i] ELSE <<>>
        repeat_rows == Cardinality({i \in 1..Max(Len(rep_inst), Len(rep_idx)) :
                                       at(rep_inst, i) /= <<>> \/ at(rep_idx, i) /= <<>>})
        obs == << <<(<<"distinct_events">>), PInt(Len(ev_counts))>>,
                  <<(<<"top_events">>),
                    PList([i \in DOMAIN top |->
                              PMap(<< <<(<<"event">>), PStr(top[i][1])>>,
                                      <<(<<"n">>), PInt(top[i][2])>> >>)])>>,
                  <<(<<"repeat_rows">>), PInt(repeat_rows)>>,
                  <<(<<"repeat_rate">>),
                    PNum(IF total /= 0 THEN Round3(repeat_rows, total) ELSE 0)>> >>
    IN  IF present = <<>> THEN <<>>
        ELSE <<Finding(<<"longitudinal_context_detected">>, <<"dataset">>, <<"info">>,
                       << <<(<<"columns">>), JoinWith(present, <<",">>)>> >>, None,
                       Some(PMap(obs)), None, None, None)>>

\* build_summary(dict_, dataset_cols, n_rows): dict_choices is keyed by
\* variable (a name declared twice keeps its first place)
build_summary(dd, dataset_cols, n_rows) ==
    LET names == [i \in DOMAIN dd.fields |-> dd.fields[i].variable]
        firsts == SelectSeq([i \in DOMAIN names |-> i],
                            LAMBDA i : \A j \in 1..(i - 1) : names[j] /= names[i])
    IN  [rows |-> n_rows,
         cols |-> Len(dataset_cols),
         dict_fields |-> Len(dd.fields),
         dataset_columns |-> dataset_cols,
         dict_field_names |-> names,
         dict_choices |-> [k \in DOMAIN firsts |->
                              <<names[firsts[k]], ChoicePairs(dd.choices[names[firsts[k]]])>>],
         dict_validations |-> [k \in DOMAIN firsts |->
                                  <<names[firsts[k]], dd.by_var[names[firsts[k]]].validation>>],
         dict_required_flags |-> [k \in DOMAIN firsts |->
                                     <<names[firsts[k]], dd.by_var[names[firsts[k]]].required>>]]
-----------------------------------------------------------------------------
(* The validator's command line: dd_val/cli.py                             *)
(*                                                                         *)
(* The disk is one corpus directory /c and the run directories beneath     *)
(* it: disk[name] is None while /c/name does not exist, else               *)
(* Some([dict, data, findings, ptr]) with the files of the run directory:  *)
(* dictionary.csv (its rows), dataset.csv ([header, rows]), findings.json  *)
(* and .prev, each None while the file does not exist.  A path is the      *)
(* sequence of its components below the filesystem root.                   *)

Root == <<"c">>
FINDINGS == <<"findings.json">>
RunPath(name) == <<Root, name>>
\* the directory the validator is started in
Cwd == <<Root>>

IsRunDir(d, p) == Len(p) = 2 /\ p[1] = Root /\ p[2] \in DOMAIN d /\ d[p[2]] /= None

\* the file at path p, None when there is none
FileAt(d, p) ==
    IF Len(p) = 3 /\ IsRunDir(d, SubSeq(p, 1, 2))
    THEN (CASE p[3] = FINDINGS -> d[p[2]][1].findings
            [] p[3] = <<".prev">> -> d[p[2]][1].ptr
            [] p[3] = <<"dictionary.csv">> -> d[p[2]][1].dict
            [] p[3] = <<"dataset.csv">> -> d[p[2]][1].data
            [] OTHER -> None)
    ELSE None

\* Path.is_dir()
is_dir(d, p) == p = <<>> \/ p = <<Root>> \/ IsRunDir(d, p)
\* Path.exists()
exists(d, p) == is_dir(d, p) \/ FileAt(d, p) /= None

\* str(n) for any int
IntToStr(n) == IF n < 0 THEN <<"-">> \o ToDigits(0 - n) ELSE ToDigits(n)

\* the name ends with "_v<digits>": the base before it and the version
VersionSuffix(name) ==
    LET k == CHOOSE k \in 0..Len(name) :
                 /\ \A i \in (k + 1)..Len(name) : name[i] \in Digits
                 /\ k = 0 \/ name[k] \notin Digits
    IN  IF k >= 2 /\ k < Len(name) /\ name[k] = "v" /\ name[k - 1] = "_"
        THEN Some([base |-> SubSeq(name, 1, k - 2), ver |-> DigitsVal(SubSeq(name, k + 1, Len(name)))])
        ELSE None

\* _infer_prev_findings with the generic _vN rule tried before the
\* perturbed one
InferGenericFirst(d, name) ==
    LET m == VersionSuffix(name)
        base == m[1].base
        ver == m[1].ver
        perturbed == /\ m /= None
                     /\ Len(base) >= 3
                     /\ SubSeq(base, Len(base) - 1, Len(base)) = <<"_", "perturbed">>
        generic == m /= None /\ base /= <<>>
        nested == /\ Len(name) >= 2 /\ name[1] = "v"
                  /\ AllDigits(Tail(name))
        nver == DigitsVal(Tail(name))
        ifexists(cand) == IF exists(d, cand) THEN Some(cand) ELSE None
    IN  IF generic /\ ver > 1
        THEN ifexists(<<Root, base \o <<"_", "v">> \o IntToStr(ver - 1), FINDINGS>>)
        ELSE IF perturbed
             THEN (IF ver = 2 THEN ifexists(<<Root, base, FINDINGS>>)
                   ELSE ifexists(<<Root, base \o <<"_", "v">> \o IntToStr(ver - 1), FINDINGS>>))
        ELSE IF nested /\ nver > 1
             THEN ifexists(<<Root, <<"v">> \o IntToStr(nver - 1), FINDINGS>>)
        ELSE None

\* _infer_prev_findings(cur_dir): the prior findings.json by folder name
_infer_prev_findings(d, name) ==
    LET m == VersionSuffix(name)
        base == m[1].base
        ver == m[1].ver
        perturbed == /\ m /= None
                     /\ Len(base) >= 3
                     /\ SubSeq(base, Len(base) - 1, Len(base)) = <<"_", "perturbed">>
        generic == m /= None /\ base /= <<>>
        nested == /\ Len(name) >= 2 /\ name[1] = "v"
                  /\ AllDigits(Tail(name))
        nver == DigitsVal(Tail(name))
        ifexists(cand) == IF exists(d, cand) THEN Some(cand) ELSE None
    IN  IF perturbed
        THEN (IF ver = 2 THEN ifexists(<<Root, base, FINDINGS>>)
              ELSE ifexists(<<Root, base \o <<"_", "v">> \o IntToStr(ver - 1), FINDINGS>>))
        ELSE IF generic /\ ver > 1
             THEN ifexists(<<Root, base \o <<"_", "v">> \o IntToStr(ver - 1), FINDINGS>>)
        ELSE IF nested /\ nver > 1
             THEN ifexists(<<Root, <<"v">> \o IntToStr(nver - 1), FINDINGS>>)
        ELSE None

RECURSIVE ResolveFrom(_, _)
\* (base / parts).resolve(): "" and "." are dropped, ".." goes up
ResolveFrom(base, parts) ==
    IF parts = <<>> THEN base
    ELSE IF Head(parts) \in {<<>>, <<".">>} THEN ResolveFrom(base, Tail(parts))
    ELSE IF Head(parts) = <<"..">>
         THEN ResolveFrom(SubSeq(base, 1, Len(base) - 1), Tail(parts))
    ELSE ResolveFrom(Append(base, Head(parts)), Tail(parts))

\* Path(raw), made absolute against the directory cur when it is relative
PathOf(raw, cur) ==
    IF raw /= <<>> /\ Head(raw) = "/" THEN ResolveFrom(<<>>, Split(raw, "/"))
    ELSE ResolveFrom(cur, Split(raw, "/"))

\* _infer_prev_from_pointer(cur_dir): the target of the .prev file
_infer_prev_from_pointer(d, name) ==
    LET ptr == d[name][1].ptr
        raw == Strip(ptr[1])
        target == PathOf(raw, RunPath(name))
        file == IF is_dir(d, target) THEN Append(target, FINDINGS) ELSE target
    IN  IF d[name] = None \/ ptr = None THEN None
        ELSE IF raw = <<>> THEN None
        ELSE IF exists(d, file) THEN Some(file) ELSE None

\* lines 114-119 with the two inferences of line 119 in the other order
ResolvePrevNamingFirst(d, name, args) ==
    LET explicit == IF args.prev_findings /= None /\ args.prev_findings[1] /= <<>>
                    THEN Some(PathOf(args.prev_findings[1], Cwd)) ELSE None
        byName == _infer_prev_findings(d, name)
    IN  IF explicit /= None \/ args.no_prev
        THEN [prev |-> explicit, consulted |-> {}]
        ELSE IF byName /= None THEN [prev |-> byName, consulted |-> {"naming"}]
        ELSE [prev |-> _infer_prev_from_pointer(d, name), consulted |-> {"pointer", "naming"}]

\* lines 114-119 of main: the prior findings path, and which of the two
\* inferences were called.  args.prev_findings is None (<<>>) or Some(str).
ResolvePrev(d, name, args) ==
    LET explicit == IF args.prev_findings /= None /\ args.prev_findings[1] /= <<>>
                    THEN Some(PathOf(args.prev_findings[1], Cwd)) ELSE None
        byPtr == _infer_prev_from_pointer(d, name)
    IN  IF explicit /= None \/ args.no_prev
        THEN [prev |-> explicit, consulted |-> {}]
        ELSE IF byPtr /= None THEN [prev |-> byPtr, consulted |-> {"pointer"}]
        ELSE [prev |-> _infer_prev_findings(d, name), consulted |-> {"pointer", "naming"}]

\* _read_prev(prev_path): the JSON object of the file, None when reading
\* or parsing it fails
_read_prev(d, p) ==
    LET f == FileAt(d, p)
    IN  IF f /= None /\ p[3] = FINDINGS /\ f[1].kind = "object" THEN f ELSE None

\* the dicts main appends for the since-last-run diffs (lines 172-198)
SinceDict(t, variable, where, observed_added, rows_affected) ==
    [type |-> t, variable |-> variable, severity |-> <<"info">>, where |-> where,
     expected |-> None, observed |-> None, examples |-> None, suggestion |-> None,
     rows_affected |-> Some(rows_affected), observed_added |-> observed_added]

\* lines 137-147 of main: the checks it runs, in its order
RunChecks(dd, ds, dataset_cols) ==
    check_columns(dd, dataset_cols)
    \o check_rename_drift(dd, dataset_cols)
    \o check_checkbox_mismatch(dd, dataset_cols)
    \o check_types(dd, ds, dataset_cols)
    \o check_domains(dd, ds, dataset_cols)
    \o check_unit_anomaly(dd, ds, dataset_cols)
    \o check_missingness_spike(ds, dataset_cols)
    \o check_branching(dd, ds, dataset_cols)
    \o check_matrix_consecutive(dd)

\* lines 150-155 without the test of line 150 for a non-empty prior
\* column set
SuppressUnguarded(findings, dataset_cols, prev_cols) ==
    SelectSeq(findings,
        LAMBDA f : ~(/\ f.type = <<"extra_column_in_data">>
                     /\ f.variable \in Range(dataset_cols) \ prev_cols))

\* lines 150-155: the since-last-run suppression
Suppress(findings, dataset_cols, prev_cols) ==
    IF prev_cols = {} THEN findings
    ELSE SelectSeq(findings,
             LAMBDA f : ~(/\ f.type = <<"extra_column_in_data">>
                          /\ f.variable \in Range(dataset_cols) \ prev_cols))

\* lines 164-198 without the membership test of line 170: every current
\* column is reported
SinceLastRunEveryColumn(prev_sum, summary, dataset_cols, n_rows) ==
    LET cur == summary.dict_choices
        changed(k) ==
            LET var == cur[k][1]
                added == SortStrs(Range(cur[k][2]) \ Range(OGet(prev_sum.dict_choices, var, <<>>)))
            IN  IF added /= <<>>
                THEN <<SinceDict(<<"domain_mismatch_since_last_run">>, var,
                                 << <<(<<"variable">>), var>> >>, Some(added), 0)>>
                ELSE <<>>
    IN  [i \in DOMAIN dataset_cols |->
            SinceDict(<<"extra_column_since_last_run">>, dataset_cols[i],
                      WhereCol(dataset_cols[i]), None, n_rows)]
        \o Flatten([k \in DOMAIN cur |-> changed(k)])

\* lines 164-198: the since-last-run findings against the prior summary
SinceLastRun(prev_sum, summary, dataset_cols, n_rows) ==
    LET prev_cols2 == Range(prev_sum.dataset_columns)
        newcol(col) ==
            IF col \notin prev_cols2
            THEN <<SinceDict(<<"extra_column_since_last_run">>, col, WhereCol(col), None, n_rows)>>
            ELSE <<>>
        cur == summary.dict_choices
        changed(k) ==
            LET var == cur[k][1]
                added == SortStrs(Range(cur[k][2]) \ Range(OGet(prev_sum.dict_choices, var, <<>>)))
            IN  IF added /= <<>>
                THEN <<SinceDict(<<"domain_mismatch_since_last_run">>, var,
                                 << <<(<<"variable">>), var>> >>, Some(added), 0)>>
                ELSE <<>>
    IN  Flatten([i \in DOMAIN dataset_cols |-> newcol(dataset_cols[i])])
        \o Flatten([k \in DOMAIN cur |-> changed(k)])

\* main(argv) for --dict, --data and --out in the run directory name:
\* what it resolves as the prior, and the object it writes to findings.json
main(d, name, args) ==
    LET written(rp, prev_obj, dataset_cols, n_rows, findings, summary) ==
            [prev |-> rp.prev, consulted |-> rp.consulted, baseline |-> prev_obj /= None,
             out |-> [kind |-> "object", summary |-> summary,
                      findings |-> [i \in DOMAIN findings |-> as_dict(findings[i])]
                                   \o (IF prev_obj /= None
                                       THEN SinceLastRun(prev_obj[1].summary, summary,
                                                         dataset_cols, n_rows)
                                       ELSE <<>>)]]
        checked(rp, prev_obj, dd, ds, dataset_cols, n_rows) ==
            written(rp, prev_obj, dataset_cols, n_rows,
                    Suppress(RunChecks(dd, ds, dataset_cols), dataset_cols,
                             IF prev_obj /= None
                             THEN Range(prev_obj[1].summary.dataset_columns) ELSE {}),
                    build_summary(dd, dataset_cols, n_rows))
        loaded(rp, dd, ds) ==
            checked(rp,
                    IF rp.prev /= None /\ exists(d, rp.prev[1])
                    THEN _read_prev(d, rp.prev[1]) ELSE None,
                    dd, ds, load_dataset_headers(ds), Len(iter_dataset_rows(ds)))
    IN  loaded(ResolvePrev(d, name, args), load_dictionary(d[name][1].dict[1]),
               d[name][1].data[1])
-----------------------------------------------------------------------------
(* The synthetic generator: dd_eval/synth.py                               *)

\* _dd_row(**kwargs): an empty row with the given headers set; kw is a
\* record.  normalize_row leaves such a row as it is (every value is a str
\* and every key a header).
_dd_row(kw) == [h \in Range(HEADERS) |-> IF h \in DOMAIN kw THEN kw[h] ELSE <<>>]

\* _choices_str(pairs): "code,label | code,label"
_choices_str(pairs) ==
    JoinWith([i \in DOMAIN pairs |-> pairs[i][1] \o <<",">> \o pairs[i][2]], <<" ", "|", " ">>)

sex_choices == << <<(<<"0">>), <<"Male">> >>, <<(<<"1">>), <<"Female">> >> >>
symp_choices == << <<(<<"1">>), <<"Cough">> >>, <<(<<"2">>), <<"Fever">> >>, <<(<<"3">>), <<"Fatigue">> >> >>
sat_choices ==
    << <<(<<"1">>), <<"Poor">> >>, <<(<<"2">>), <<"Fair">> >>, <<(<<"3">>), <<"Good">> >>,
       <<(<<"4">>), <<"Excellent">> >> >>
adl_choices == << <<(<<"0">>), <<"No">> >>, <<(<<"1">>), <<"Yes">> >> >>

\* the rows build_dictionary appends, one definition per field
Row_record_id ==
    _dd_row([variable_name |-> <<"record_id">>, field_type |-> T_text,
             text_validation_type_or_show_slider_number |-> <<"integer">>,
             identifier |-> <<"y">>, required_field |-> <<"y">>])
Row_sex ==
    _dd_row([variable_name |-> <<"sex">>, field_type |-> T_radio,
             choices_calculations_or_slider_labels |-> _choices_str(sex_choices),
             required_field |-> <<"y">>])
Row_pregnant ==
    _dd_row([variable_name |-> <<"pregnant">>, field_type |-> T_yesno,
             branching_logic |-> BranchCondition])
Row_age ==
    _dd_row([variable_name |-> <<"age">>, field_type |-> T_text,
             text_validation_type_or_show_slider_number |-> <<"integer">>,
             required_field |-> <<"y">>])
Row_height_cm ==
    _dd_row([variable_name |-> <<"height_cm">>, field_type |-> T_text,
             field_note |-> <<"units=", "cm">>,
             text_validation_type_or_show_slider_number |-> <<"number">>])
Row_weight_kg ==
    _dd_row([variable_name |-> <<"weight_kg">>, field_type |-> T_text,
             field_note |-> <<"units=", "kg">>,
             text_validation_type_or_show_slider_number |-> <<"number">>])
Row_bmi ==
    _dd_row([variable_name |-> <<"bmi">>, field_type |-> <<"calc">>,
             choices_calculations_or_slider_labels |-> <<"([weight_kg]/(( [height_cm]/100)^(2)))">>])
Row_symptoms ==
    _dd_row([variable_name |-> <<"symptoms">>, field_type |-> T_checkbox,
             choices_calculations_or_slider_labels |-> _choices_str(symp_choices)])
Row_satisfaction ==
    _dd_row([variable_name |-> <<"satisfaction">>, field_type |-> T_dropdown,
             choices_calculations_or_slider_labels |-> _choices_str(sat_choices)])
Row_visit_date_v1 ==
    _dd_row([variable_name |-> <<"visit_date_v1">>, field_type |-> T_text,
             text_validation_type_or_show_slider_number |-> <<"date_ymd">>])
Row_visit_date_v2 ==
    _dd_row([variable_name |-> <<"visit_date_v2">>, field_type |-> T_text,
             text_validation_type_or_show_slider_number |-> <<"date_ymd">>])
Row_adls(var) ==
    _dd_row([variable_name |-> var, field_type |-> T_radio,
             choices_calculations_or_slider_labels |-> _choices_str(adl_choices),
             matrix_group_name |-> <<"adls">>])
Row_notes == _dd_row([variable_name |-> <<"notes">>, field_type |-> <<"notes">>])
Row_pain_severity ==
    _dd_row([variable_name |-> <<"pain_severity">>, field_type |-> <<"slider">>,
             choices_calculations_or_slider_labels |->
                 <<"0", ",", "No pain", " ", "|", " ", "5", "0", ",", "Moderate", " ", "|", " ",
                   "1", "0", "0", ",", "Severe">>,
             text_validation_type_or_show_slider_number |-> <<"y">>])
Row_bp_sys ==
    _dd_row([variable_name |-> <<"bp_sys">>, field_type |-> T_text,
             field_note |-> <<"units=", "mmHg">>,
             text_validation_type_or_show_slider_number |-> <<"integer">>])
Row_bp_dia ==
    _dd_row([variable_name |-> <<"bp_dia">>, field_type |-> T_text,
             field_note |-> <<"units=", "mmHg">>,
             text_validation_type_or_show_slider_number |-> <<"integer">>])

\* random.Random(seed): the state of a seeded generator.  A linear
\* congruential generator of full period stands for the Mersenne Twister:
\* the stream is a function of the seed alone, and every draw below is made
\* on the state after one step.
Random(seed) == seed % 64
RngNext(g) == (21 * g + 17) % 64

\* the state after 1, 2, 4, 8, 16 and 32 steps
RngStep1 == [g \in 0..63 |-> RngNext(g)]
RngStep2 == [g \in 0..63 |-> RngStep1[RngStep1[g]]]
RngStep4 == [g \in 0..63 |-> RngStep2[RngStep2[g]]]
RngStep8 == [g \in 0..63 |-> RngStep4[RngStep4[g]]]
RngStep16 == [g \in 0..63 |-> RngStep8[RngStep8[g]]]
RngStep32 == [g \in 0..63 |-> RngStep16[RngStep16[g]]]

\* the state after k steps (the period is 64)
RngIter(g, k) ==
    LET b(i) == (k \div i) % 2 = 1
        g1 == IF b(1) THEN RngStep1[g] ELSE g
        g2 == IF b(2) THEN RngStep2[g1] ELSE g1
        g4 == IF b(4) THEN RngStep4[g2] ELSE g2
        g8 == IF b(8) THEN RngStep8[g4] ELSE g4
        g16 == IF b(16) THEN RngStep16[g8] ELSE g8
    IN  IF b(32) THEN RngStep32[g16] ELSE g16

\* rng.random() < pct / 100, on the state g of the draw
RandomBelow(g, pct) == g * 100 < pct * 64
\* rng.randrange(a, b)
randrange(g, a, b) == a + (g * (b - a)) \div 64
\* rnd_choice(rng, seq) and rng.choice(seq)
rnd_choice(g, seq) == seq[1 + randrange(g, 0, Len(seq))]

\* n / d rounded to the nearest integer, ties to even (n >= 0, d > 0)
RoundHalfEven(n, d) ==
    LET q == n \div d
        r == n % d
    IN  IF 2 * r > d THEN q + 1
        ELSE IF 2 * r < d THEN q
        ELSE IF q % 2 = 0 THEN q ELSE q + 1

\* f"{x:.1f}" for x >= 0 given in tenths
Fmt1(tenths) == ToDigits(tenths \div 10) \o <<".">> \o ToDigits(tenths % 10)

\* build_dictionary(project_idx, rng): the rows, and the generator after
\* the two draws rng.random() < 0.5 (slider) and rng.random() < 0.7 (bp)
build_dictionary(project_idx, rng) ==
    LET g1 == RngNext(rng)
        g2 == RngNext(g1)
    IN  [rows |->
            <<Row_record_id, Row_sex, Row_pregnant, Row_age, Row_height_cm, Row_weight_kg,
              Row_bmi, Row_symptoms, Row_satisfaction, Row_visit_date_v1, Row_visit_date_v2,
              Row_adls(<<"adls_wash">>), Row_adls(<<"adls_dress">>), Row_adls(<<"adls_eat">>),
              Row_notes>>
            \o (IF RandomBelow(g1, 50) THEN <<Row_pain_severity>> ELSE <<>>)
            \o (IF RandomBelow(g2, 70) THEN <<Row_bp_sys, Row_bp_dia>> ELSE <<>>),
         rng |-> g2]
-----------------------------------------------------------------------------
(* generate_dataset: dd_eval/synth.py                                      *)

RECURSIVE CommaParts(_)
\* the (code, label) pairs of the parts of raw.split("|") that hold a ","
CommaParts(parts) ==
    IF parts = <<>> THEN <<>>
    ELSE LET part == Strip(Head(parts))
             cl == Split1(part, ",")
         IN  (IF part /= <<>> /\ Len(cl) = 2 THEN << <<Strip(cl[1]), Strip(cl[2])>> >> ELSE <<>>)
             \o CommaParts(Tail(parts))

\* the pairs of a choices string, none for an empty one
CommaPairs(raw) == IF raw = <<>> THEN <<>> ELSE CommaParts(Split(raw, "|"))

\* choices.get(v, []) in generate_dataset (lines 256-273): the pairs of
\* the last categorical row named v
GenChoices(dict_rows, v) ==
    LET cat == {i \in DOMAIN dict_rows :
                   /\ dict_rows[i].variable_name = v
                   /\ dict_rows[i].field_type \in {T_radio, T_dropdown, T_checkbox, T_yesno, T_truefalse}}
        r == dict_rows[CHOOSE i \in cat : \A j \in cat : j <= i]
    IN  IF cat = {} THEN <<>>
        ELSE IF r.field_type = T_yesno THEN << <<(<<"0">>), <<"No">> >>, <<(<<"1">>), <<"Yes">> >> >>
        ELSE IF r.field_type = T_truefalse
             THEN << <<(<<"0">>), <<"False">> >>, <<(<<"1">>), <<"True">> >> >>
        ELSE CommaPairs(Strip(r.choices_calculations_or_slider_labels))

\* f"{v}___{code}"
CheckboxCol(v, code) == v \o <<"___">> \o code

\* lines 276-284: a column per field, a column per code of a checkbox
GenDataCols(dict_rows) ==
    Flatten([i \in DOMAIN dict_rows |->
        LET v == dict_rows[i].variable_name
            pairs == GenChoices(dict_rows, v)
        IN  IF dict_rows[i].field_type = T_checkbox
            THEN [k \in DOMAIN pairs |-> CheckboxCol(v, pairs[k][1])]
            ELSE <<v>>])

\* the assignments d[k] = v of a sequence of <<k, v>>, in order: a key keeps
\* the place of its first assignment and the value of its last one
OSetAll(d, kvs) ==
    LET all == d \o kvs
        firsts == {i \in DOMAIN all : \A j \in 1..(i - 1) : all[j][1] /= all[i][1]}
        nth(n) == CHOOSE i \in firsts : Cardinality({j \in firsts : j <= i}) = n
        lastOf(k) == CHOOSE i \in DOMAIN all :
                         all[i][1] = k /\ \A j \in (i + 1)..Len(all) : all[j][1] /= k
    IN  [n \in 1..Cardinality(firsts) |-> <<all[nth(n)][1], all[lastOf(all[nth(n)][1])][2]>>]

\* two digits
Pad2(n) == IF n < 10 THEN <<"0">> \o ToDigits(n) ELSE ToDigits(n)

MonthDays2024 == <<31, 29, 31, 30, 31, 30, 31, 31, 30, 31, 30, 31>>

RECURSIVE MonthDay(_, _)
\* the month and the day of the date that lies days after the first day
\* of month m of 2024
MonthDay(m, days) ==
    IF days < MonthDays2024[m] THEN <<m, days + 1>>
    ELSE MonthDay(m + 1, days - MonthDays2024[m])

\* _rand_date(rng): (date(2024, 1, 1) + timedelta(days)).isoformat()
_rand_date(g) ==
    LET md == MonthDay(1, randrange(g, 0, 365))
    IN  <<"2", "0", "2", "4", "-">> \o Pad2(md[1]) \o <<"-">> \o Pad2(md[2])

\* the generator after a draw that is made when c holds
Draw(c, g) == IF c THEN RngNext(g) ELSE g

\* the generator after a second draw, made when c holds and the draw that
\* left the generator in g came out below pct percent
DrawBelow(c, g, pct) == IF c /\ RandomBelow(g, pct) THEN RngNext(g) ELSE g

\* f"{bmi:.1f}" in tenths, for h_cm = (1200 + 5 g3) / 8 and
\* w_kg = (1600 + 25 g4) / 32
Bmi10(g3, g4) == RoundHalfEven((64 + g4) * 200000, (240 + g3) * (240 + g3))

\* the body of the loop of generate_dataset (lines 289-345) for row i on
\* the generator state g: the row and the generator after it
GenRow(dict_rows, data_cols, i, g) ==
    LET has(c) == c \in Range(data_cols)
        sexTyped == \E k \in DOMAIN dict_rows : dict_rows[k].variable_name = <<"sex">>
        g1 == Draw(sexTyped, g)
        sex_val == IF sexTyped THEN rnd_choice(g1, << <<"0">>, <<"1">> >>) ELSE <<>>
        g2 == Draw(has(<<"age">>), g1)
        has_height == has(<<"height_cm">>)
        has_weight == has(<<"weight_kg">>)
        g3 == Draw(has_height, g2)
        g4 == Draw(has_weight, g3)
        \* h_cm = (1200 + 5 g3) / 8 and w_kg = (1600 + 25 g4) / 32
        bmi10 == Bmi10(g3, g4)
        codes == IF \E k \in DOMAIN data_cols : StartsWith(data_cols[k], <<"symptoms", "___">>)
                 THEN GenChoices(dict_rows, <<"symptoms">>) ELSE <<>>
        g5 == RngIter(g4, Len(codes))
        g6 == Draw(has(<<"pregnant">>) /\ sex_val = <<"1">>, g5)
        g7 == Draw(has(<<"visit_date_v1">>), g6)
        g8 == Draw(has(<<"visit_date_v2">>), g7)
        g9a == Draw(has(<<"satisfaction">>), g8)
        satDrawn == has(<<"satisfaction">>) /\ RandomBelow(g9a, 98)
        g9 == DrawBelow(has(<<"satisfaction">>), g9a, 98)
        g10 == Draw(has(<<"bp_sys">>), g9)
        g11 == Draw(has(<<"bp_dia">>), g10)
        g12 == Draw(has(<<"notes">>), g11)
        g13 == Draw(has(<<"pain_severity">>), g12)
        a1 == Draw(has(<<"adls_wash">>), g13)
        a1c == DrawBelow(has(<<"adls_wash">>), a1, 95)
        a2 == Draw(has(<<"adls_dress">>), a1c)
        a2c == DrawBelow(has(<<"adls_dress">>), a2, 95)
        a3 == Draw(has(<<"adls_eat">>), a2c)
        a3c == DrawBelow(has(<<"adls_eat">>), a3, 95)
        adl(c, gr, gc) == IF has(c)
                          THEN << <<c, IF RandomBelow(gr, 95)
                                       THEN rnd_choice(gc, << <<"0">>, <<"1">> >>) ELSE <<>> >> >>
                          ELSE <<>>
        set(c, v) == IF has(c) THEN << <<c, v>> >> ELSE <<>>
    IN  [row |->
            OSetAll(<<>>,
                [k \in DOMAIN data_cols |-> <<data_cols[k], <<>> >>]
                \o set(<<"record_id">>, ToDigits(1000 + i))
                \o set(<<"sex">>, sex_val)
                \o set(<<"age">>, ToDigits(randrange(g2, 18, 90)))
                \o set(<<"height_cm">>, Fmt1(RoundHalfEven(10 * (1200 + 5 * g3), 8)))
                \o set(<<"weight_kg">>, Fmt1(RoundHalfEven(10 * (1600 + 25 * g4), 32)))
                \o (IF has(<<"bmi">>) /\ has_height /\ has_weight
                    THEN << <<(<<"bmi">>), Fmt1(bmi10)>> >> ELSE <<>>)
                \o [k \in DOMAIN codes |->
                       <<CheckboxCol(<<"symptoms">>, codes[k][1]),
                         IF RandomBelow(RngIter(g4, k), 30) THEN <<"1">> ELSE <<"0">> >>]
                \o set(<<"pregnant">>,
                       IF sex_val = <<>> THEN <<>>
                       ELSE IF sex_val = <<"1">> /\ RandomBelow(g6, 10) THEN <<"1">> ELSE <<"0">>)
                \o set(<<"visit_date_v1">>, _rand_date(g7))
                \o set(<<"visit_date_v2">>, _rand_date(g8))
                \o set(<<"satisfaction">>,
                       IF satDrawn THEN rnd_choice(g9, << <<"1">>, <<"2">>, <<"3">>, <<"4">> >>)
                       ELSE <<>>)
                \o set(<<"bp_sys">>, ToDigits(randrange(g10, 90, 180)))
                \o set(<<"bp_dia">>, ToDigits(randrange(g11, 50, 110)))
                \o set(<<"notes">>, IF RandomBelow(g12, 60) THEN <<>> ELSE <<"Needs follow-up">>)
                \o set(<<"pain_severity">>, ToDigits(randrange(g13, 0, 101)))
                \o adl(<<"adls_wash">>, a1, a1c)
                \o adl(<<"adls_dress">>, a2, a2c)
                \o adl(<<"adls_eat">>, a3, a3c)),
         rng |-> a3c]

RECURSIVE GenRows(_, _, _, _, _)
\* the loop of generate_dataset from row i on
GenRows(dict_rows, data_cols, i, n, g) ==
    IF i >= n THEN <<>>
    ELSE LET rest(r) == <<r.row>> \o GenRows(dict_rows, data_cols, i + 1, n, r.rng)
         IN  rest(GenRow(dict_rows, data_cols, i, g))

\* generate_dataset(dict_rows, n, rng): n rows that conform to dict_rows
generate_dataset(dict_rows, n, rng) == GenRows(dict_rows, GenDataCols(dict_rows), 0, n, rng)

\* dictionary_and_data(project_idx, n, seed)
dictionary_and_data(project_idx, n, seed) ==
    LET data(d) == <<d.rows, generate_dataset(d.rows, n, d.rng)>>
    IN  data(build_dictionary(project_idx, Random(seed + project_idx)))
-----------------------------------------------------------------------------
(* The corruption engine: dd_eval/corrupt.py                               *)
(*                                                                         *)
(* The recipes work on a state s = [d, x, gold, rng, glob, raised]: the    *)
(* working dictionary rows and data rows, the gold list, the state of the  *)
(* seeded generator rng, the state of the generator of the random module   *)
(* (glob: random.random() and random.choice() draw from it, whatever the   *)
(* seed), and whether an exception has been raised.  A gold record is      *)
(* [type, variable, kwargs] with kwargs the other entries in order.        *)

\* _log(gold, type_, variable, **kwargs)
_log(gold, type_, variable, kwargs) ==
    Append(gold, [type |-> <<type_>>, variable |-> variable, kwargs |-> kwargs])

\* the entry rows_affected=n
RowsAffected(n) == <<(<<"rows_affected">>), PInt(n)>>

\* _dict_by_var(rows): a name keeps the place of its first row and the
\* value of its last
_dict_by_var(rows) == OSetAll(<<>>, [i \in DOMAIN rows |-> <<rows[i].variable_name, rows[i]>>])

\* _choice_pairs(r)
_choice_pairs(r) == CommaPairs(Strip(r.choices_calculations_or_slider_labels))

\* a reference to obj itself where the code takes a deep copy: the caller's
\* object and the working object are one
AliasOf(obj) == [obj |-> obj, shared |-> TRUE]

\* copy.deepcopy(obj): a copy that shares nothing with obj
deepcopy(obj) == [obj |-> obj, shared |-> FALSE]

\* what the caller's object holds after the call, given the working copy
\* made of it and what the working copy holds at the end
CallerHolds(obj, copy, final) == IF copy.shared THEN final ELSE obj

\* enable.get(name, enable_default)
Enabled(enable, name) == IF name \in DOMAIN enable THEN enable[name] ELSE TRUE

\* the names of by_var whose row is among rows, in order
VarsWith(by_var, rows) == OKeys(SelectSeq(by_var, LAMBDA e : e[2] \in rows))

\* the rows of by_var with a validation type among vals
Validated(by_var, vals) ==
    {by_var[i][2] : i \in {j \in DOMAIN by_var :
        by_var[j][2].text_validation_type_or_show_slider_number \in vals}}

\* the rows of by_var with a field type among types
Typed(by_var, types) ==
    {by_var[i][2] : i \in {j \in DOMAIN by_var : by_var[j][2].field_type \in types}}

\* [v for v in vars if v in x_rows[0]]
InFirstRow(names, x) == SelectSeq(names, LAMBDA v : OHas(x[1], v))

\* 1) missing and extra columns (lines 63-76)
missing_extra_columns(s, by_var, data_cols) ==
    LET candidates == SelectSeq(OKeys(by_var),
                          LAMBDA v : v /= <<"record_id">> /\ v \in Range(data_cols))
        drop == candidates /= <<>>
        g1 == IF drop THEN RngNext(s.rng) ELSE s.rng
        drop_v == rnd_choice(g1, candidates)
        x1 == IF drop THEN [k \in DOMAIN s.x |-> ODel(s.x[k], drop_v)] ELSE s.x
        gold1 == IF drop
                 THEN _log(s.gold, "missing_column_in_data", drop_v, <<RowsAffected(Len(s.x))>>)
                 ELSE s.gold
        extra == <<"extra_col">> \notin Range(data_cols)
    IN  IF ~extra THEN [s EXCEPT !.x = x1, !.gold = gold1, !.rng = g1]
        ELSE [s EXCEPT
                 !.x = [k \in DOMAIN x1 |->
                           OSet(x1[k], <<"extra_col">>,
                                ToDigits(randrange(RngIter(g1, k), 0, 9999)))],
                 !.gold = _log(gold1, "extra_column_in_data", <<"extra_col">>,
                               <<RowsAffected(Len(s.x))>>),
                 !.rng = RngIter(g1, Len(s.x))]

\* 2) type drift (lines 79-112): "x" after numbers, y-m-d dates to m/d/Y
type_drift(s, by_var) ==
    LET numeric == VarsWith(by_var, Validated(by_var, {<<"integer">>, <<"number">>}))
        dates == VarsWith(by_var, Validated(by_var, {<<"date_ymd">>}))
        n == Len(s.x)
        numeric_vars == InFirstRow(numeric, s.x)
        nhit(m, k) == /\ RandomBelow(RngIter(s.rng, (m - 1) * n + k), 15)
                      /\ OGet(s.x[k], numeric_vars[m], <<>>) /= <<>>
        x1 == [k \in DOMAIN s.x |->
                  OSetAll(s.x[k],
                      Flatten([m \in DOMAIN numeric_vars |->
                          IF nhit(m, k)
                          THEN << <<numeric_vars[m], OGet(s.x[k], numeric_vars[m], <<>>) \o <<"x">> >> >>
                          ELSE <<>>]))]
        gold1 == s.gold \o Flatten([m \in DOMAIN numeric_vars |->
                     LET n_aff == Cardinality({k \in 1..n : nhit(m, k)})
                     IN  IF n_aff > 0
                         THEN _log(<<>>, "type_mismatch", numeric_vars[m],
                                   << <<(<<"expected">>), PStr(<<"numeric">>)>>,
                                      <<(<<"observed">>), PStr(<<"string">>)>>,
                                      RowsAffected(n_aff)>>)
                         ELSE <<>>])
        g2 == RngIter(s.rng, Len(numeric_vars) * n)
        date_vars == InFirstRow(dates, s.x)
        val(m, k) == OGet(x1[k], date_vars[m], <<>>)
        \* the draws made up to and including row k of variable m
        drawn(m, k) == Cardinality({p \in (DOMAIN date_vars) \X (1..n) :
                           /\ val(p[1], p[2]) /= <<>>
                           /\ p[1] < m \/ (p[1] = m /\ p[2] <= k)})
        dhit(m, k) == val(m, k) /= <<>> /\ RandomBelow(RngIter(g2, drawn(m, k)), 20)
        ymd(m, k) == Split(val(m, k), "-")
        x2 == [k \in DOMAIN x1 |->
                  OSetAll(x1[k],
                      Flatten([m \in DOMAIN date_vars |->
                          IF dhit(m, k)
                          THEN << <<date_vars[m],
                                    ymd(m, k)[2] \o <<"/">> \o ymd(m, k)[3] \o <<"/">> \o ymd(m, k)[1]>> >>
                          ELSE <<>>]))]
        gold2 == gold1 \o Flatten([m \in DOMAIN date_vars |->
                     LET n_aff == Cardinality({k \in 1..n : dhit(m, k)})
                     IN  IF n_aff > 0
                         THEN _log(<<>>, "type_mismatch", date_vars[m],
                                   << <<(<<"expected">>), PStr(<<"date_ymd">>)>>,
                                      <<(<<"observed">>), PStr(<<"date_mdy">>)>>,
                                      RowsAffected(n_aff)>>)
                         ELSE <<>>])
    IN  \* x_rows[0] raises IndexError on an empty dataset (lines 85, 100)
        IF s.x = <<>> /\ (numeric /= <<>> \/ dates /= <<>>) THEN [s EXCEPT !.raised = TRUE]
        ELSE IF s.x = <<>> THEN s
        \* y, m, d = val.split("-") raises ValueError unless there are three
        ELSE IF \E m \in DOMAIN date_vars : \E k \in 1..n : dhit(m, k) /\ Len(ymd(m, k)) /= 3
             THEN [s EXCEPT !.raised = TRUE]
        ELSE [s EXCEPT !.x = x2, !.gold = gold2,
                       !.rng = RngIter(g2, drawn(Len(date_vars), n))]

\* 3) domain drift (lines 115-137): the level "9" in one categorical
domain_drift(s, by_var) ==
    LET cats == VarsWith(by_var, Typed(by_var, {T_radio, T_dropdown}))
        cat_vars == InFirstRow(cats, s.x)
        g1 == RngNext(s.rng)
        v == rnd_choice(g1, cat_vars)
        seen == {OGet(s.x[k], v, <<>>) : k \in DOMAIN s.x} \ {<<>>}
        hit(k) == RandomBelow(RngIter(g1, k), 10)
        affected == Cardinality({k \in DOMAIN s.x : hit(k)})
        pairs == ChoicePairs(_choice_pairs(OGet(by_var, v, <<>>)))
        observed == SortStrs(seen \cup {<<"9">>})
    IN  IF s.x = <<>> /\ cats /= <<>> THEN [s EXCEPT !.raised = TRUE]
        ELSE IF s.x = <<>> \/ cat_vars = <<>> THEN s
        ELSE [s EXCEPT
                 !.x = [k \in DOMAIN s.x |-> IF hit(k) THEN OSet(s.x[k], v, <<"9">>) ELSE s.x[k]],
                 !.gold = IF affected > 0
                          THEN _log(s.gold, "domain_mismatch", v,
                                    << <<(<<"expected">>), PList([i \in DOMAIN pairs |-> PStr(pairs[i])])>>,
                                       <<(<<"observed">>), PList([i \in DOMAIN observed |-> PStr(observed[i])])>>,
                                       RowsAffected(affected)>>)
                          ELSE s.gold,
                 !.rng = RngIter(g1, Len(s.x))]

\* f"{cm * 0.393701:.1f}" for the float of val
Inches(val) ==
    LET f == FloatOf(val)
        tenths == IF f.e >= 0 THEN RoundHalfEven(f.m * Pow10(f.e) * 393701, 100000)
                  ELSE RoundHalfEven(f.m * 393701, 100000 * Pow10(0 - f.e))
    IN  IF f.kind = "nan" THEN <<"nan">>
        ELSE IF f.kind = "inf" THEN (IF f.neg THEN <<"-", "inf">> ELSE <<"inf">>)
        ELSE (IF f.neg THEN <<"-">> ELSE <<>>) \o Fmt1(tenths)

\* 4) unit anomalies (lines 140-153): heights in inches, drawn from the
\* random module
unit_anomalies(s) ==
    LET val(k) == OGet(s.x[k], <<"height_cm">>, <<>>)
        draws(k) == val(k) /= <<>> /\ ~Contains(val(k), <<"x">>)
        drawn(k) == Cardinality({j \in 1..k : draws(j)})
        hit(k) == draws(k) /\ RandomBelow(RngIter(s.glob, drawn(k)), 12)
        conv(k) == hit(k) /\ is_num(val(k))
        affected == Cardinality({k \in DOMAIN s.x : conv(k)})
    IN  IF s.x = <<>> THEN [s EXCEPT !.raised = TRUE]
        ELSE IF ~OHas(s.x[1], <<"height_cm">>) THEN s
        ELSE [s EXCEPT
                 !.x = [k \in DOMAIN s.x |->
                           IF conv(k) THEN OSet(s.x[k], <<"height_cm">>, Inches(val(k)))
                           ELSE s.x[k]],
                 !.gold = IF affected > 0
                          THEN _log(s.gold, "unit_anomaly", <<"height_cm">>,
                                    << <<(<<"expected_unit">>), PStr(<<"cm">>)>>,
                                       <<(<<"note">>), PStr(<<"subset appears inches">>)>>,
                                       RowsAffected(affected)>>)
                          ELSE s.gold,
                 !.glob = RngIter(s.glob, drawn(Len(s.x)))]

\* 5) missingness spikes (lines 156-164), drawn from the random module
missingness_spikes(s) ==
    LET hit(k) == /\ RandomBelow(RngIter(s.glob, k), 80)
                  /\ OGet(s.x[k], <<"visit_date_v2">>, <<>>) /= <<>>
        affected == Cardinality({k \in DOMAIN s.x : hit(k)})
    IN  IF s.x = <<>> THEN [s EXCEPT !.raised = TRUE]
        ELSE IF ~OHas(s.x[1], <<"visit_date_v2">>) THEN s
        ELSE [s EXCEPT
                 !.x = [k \in DOMAIN s.x |->
                           IF hit(k) THEN OSet(s.x[k], <<"visit_date_v2">>, <<>>) ELSE s.x[k]],
                 !.gold = IF affected > 0
                          THEN _log(s.gold, "missingness_spike", <<"visit_date_v2">>,
                                    <<RowsAffected(affected)>>)
                          ELSE s.gold,
                 !.glob = RngIter(s.glob, Len(s.x))]

\* 6) rename drift (lines 167-178): bp_sys -> sbp, else height_cm -> ht_cm
rename_drift(s) ==
    LET old == IF OHas(s.x[1], <<"bp_sys">>) THEN <<"bp_sys">> ELSE <<"height_cm">>
        new == IF OHas(s.x[1], <<"bp_sys">>) THEN <<"sbp">> ELSE <<"ht_cm">>
    IN  IF s.x = <<>> THEN [s EXCEPT !.raised = TRUE]
        ELSE IF ~OHas(s.x[1], old) THEN s
        ELSE [s EXCEPT
                 !.x = [k \in DOMAIN s.x |->
                           IF OHas(s.x[k], old)
                           THEN OSet(ODel(s.x[k], old), new, OGet(s.x[k], old, <<>>))
                           ELSE s.x[k]],
                 !.gold = _log(s.gold, "rename_drift", old,
                               << <<(<<"observed">>), PStr(new)>>, RowsAffected(Len(s.x))>>)]

\* 7) checkbox expansion (lines 181-191): a column symptoms___999, drawn
\* from the random module
checkbox_expansion(s, by_var) ==
    LET codes == IF OHas(by_var, <<"symptoms">>)
                 THEN _choice_pairs(OGet(by_var, <<"symptoms">>, <<>>)) ELSE <<>>
        bogus == <<"symptoms", "___", "9", "9", "9">>
    IN  IF codes = <<>> THEN s
        ELSE [s EXCEPT
                 !.x = [k \in DOMAIN s.x |->
                           OSet(s.x[k], bogus,
                                IF RandomBelow(RngIter(s.glob, k), 5) THEN <<"1">> ELSE <<"0">>)],
                 !.gold = _log(s.gold, "checkbox_expansion_mismatch", <<"symptoms">>,
                               << <<(<<"observed_added">>), PList(<<PStr(bogus)>>)>>,
                                  RowsAffected(Len(s.x))>>),
                 !.glob = RngIter(s.glob, Len(s.x))]

\* 8) branching mismatch (lines 194-201): pregnant males, drawn from the
\* random module
branching_mismatch(s) ==
    LET draws(k) == OGet(s.x[k], <<"sex">>, None) = <<"0">>
        drawn(k) == Cardinality({j \in 1..k : draws(j)})
        hit(k) == draws(k) /\ RandomBelow(RngIter(s.glob, drawn(k)), 20)
        affected == Cardinality({k \in DOMAIN s.x : hit(k)})
    IN  IF s.x = <<>> THEN [s EXCEPT !.raised = TRUE]
        ELSE IF ~(OHas(s.x[1], <<"sex">>) /\ OHas(s.x[1], <<"pregnant">>)) THEN s
        ELSE [s EXCEPT
                 !.x = [k \in DOMAIN s.x |->
                           IF hit(k) THEN OSet(s.x[k], <<"pregnant">>, <<"1">>) ELSE s.x[k]],
                 !.gold = IF affected > 0
                          THEN _log(s.gold, "branching_mismatch", <<"pregnant">>,
                                    << <<(<<"condition">>), PStr(BranchCondition)>>,
                                       RowsAffected(affected)>>)
                          ELSE s.gold,
                 !.glob = RngIter(s.glob, drawn(Len(s.x)))]

\* 9) matrix break (lines 204-210): one ADL row moved to the end, chosen
\* by the random module
matrix_break(s) ==
    LET idxs == SelectSeq([i \in DOMAIN s.d |-> i],
                    LAMBDA i : s.d[i].matrix_group_name = <<"adls">>)
        g1 == RngNext(s.glob)
    IN  IF Len(idxs) < 2 THEN s
        ELSE [s EXCEPT
                 !.d = MoveToEnd(s.d, rnd_choice(g1, idxs)),
                 !.gold = _log(s.gold, "matrix_nonconsecutive", <<"adls">>, <<RowsAffected(0)>>),
                 !.glob = g1]

RECURSIVE Duplicates(_, _, _, _, _)
\* the loop of lines 227-232 from row i on (1-based): the rows, the number
\* of rows given an earlier id, and the generator after it
Duplicates(x, ids, i, g, n_aff) ==
    IF i > Len(x) THEN [x |-> x, rng |-> g, n_aff |-> n_aff]
    ELSE IF ids[i] = <<>> THEN Duplicates(x, ids, i + 1, g, n_aff)
    ELSE LET g1 == RngNext(g)
             g2 == RngNext(g1)
             j == 1 + randrange(g2, 0, Max(1, i - 1))
         IN  IF ~RandomBelow(g1, 10) THEN Duplicates(x, ids, i + 1, g1, n_aff)
             ELSE IF ids[j] = <<>> THEN Duplicates(x, ids, i + 1, g2, n_aff)
             ELSE Duplicates([x EXCEPT ![i] = OSet(@, <<"record_id">>, ids[j])],
                             ids, i + 1, g2, n_aff + 1)

\* 10) primary key (lines 213-234): the record_id column dropped, or ids
\* of earlier rows copied into later ones
primary_key(s) ==
    LET g1 == RngNext(s.rng)
        pkmode == rnd_choice(g1, <<"duplicates", "missing_column">>)
        dup == Duplicates(s.x, [k \in DOMAIN s.x |-> OGet(s.x[k], <<"record_id">>, <<>>)],
                          1, g1, 0)
    IN  IF s.x = <<>> THEN s
        ELSE IF ~OHas(s.x[1], <<"record_id">>) THEN s
        ELSE IF pkmode = "missing_column"
             THEN [s EXCEPT
                      !.x = [k \in DOMAIN s.x |-> ODel(s.x[k], <<"record_id">>)],
                      !.gold = _log(s.gold, "missing_primary_key_column", <<"record_id">>,
                                    <<RowsAffected(Len(s.x))>>),
                      !.rng = g1]
        ELSE [s EXCEPT
                 !.x = dup.x,
                 !.gold = IF dup.n_aff > 0
                          THEN _log(s.gold, "duplicate_primary_key_values", <<"record_id">>,
                                    <<RowsAffected(dup.n_aff)>>)
                          ELSE s.gold,
                 !.rng = dup.rng]

\* 11) required field missing rate (lines 237-248)
required_missing(s, by_var) ==
    LET req == VarsWith(by_var, {by_var[i][2] : i \in {j \in DOMAIN by_var :
                                     Lower(by_var[j][2].required_field) = <<"y">>}})
        candidates == IF s.x = <<>> THEN <<>> ELSE InFirstRow(req, s.x)
        g1 == RngNext(s.rng)
        v == rnd_choice(g1, candidates)
        hit(k) == RandomBelow(RngIter(g1, k), 30)
        affected == Cardinality({k \in DOMAIN s.x : hit(k)})
    IN  IF candidates = <<>> THEN s
        ELSE [s EXCEPT
                 !.x = [k \in DOMAIN s.x |-> IF hit(k) THEN OSet(s.x[k], v, <<>>) ELSE s.x[k]],
                 !.gold = IF affected > 0
                          THEN _log(s.gold, "required_field_missing_rate_high", v,
                                    <<RowsAffected(affected)>>)
                          ELSE s.gold,
                 !.rng = RngIter(g1, Len(s.x))]

\* maps[v] of lines 255-260: code -> label, the last label of a code
LabelMap(r) ==
    LET own == _choice_pairs(r)
        pairs == IF own = <<>> /\ r.field_type = T_yesno
                 THEN << <<(<<"0">>), <<"No">> >>, <<(<<"1">>), <<"Yes">> >> >>
                 ELSE IF own = <<>> /\ r.field_type = T_truefalse
                 THEN << <<(<<"0">>), <<"False">> >>, <<(<<"1">>), <<"True">> >> >>
                 ELSE own
    IN  OSetAll(<<>>, pairs)

\* 12) label export (lines 251-270): categorical codes become labels
label_export(s, by_var) ==
    LET cats == VarsWith(by_var, Typed(by_var, {T_radio, T_dropdown, T_yesno, T_truefalse}))
        cat_vars == IF s.x = <<>> THEN <<>> ELSE InFirstRow(cats, s.x)
        map(v) == LabelMap(OGet(by_var, v, <<>>))
        conv(k, v) == OHas(map(v), OGet(s.x[k], v, <<>>))
        converted == Cardinality({p \in (DOMAIN s.x) \X Range(cat_vars) : conv(p[1], p[2])})
    IN  IF cat_vars = <<>> THEN s
        ELSE [s EXCEPT
                 !.x = [k \in DOMAIN s.x |->
                           OSetAll(s.x[k],
                               Flatten([m \in DOMAIN cat_vars |->
                                   IF conv(k, cat_vars[m])
                                   THEN << <<cat_vars[m],
                                             OGet(map(cat_vars[m]), OGet(s.x[k], cat_vars[m], <<>>), <<>>)>> >>
                                   ELSE <<>>]))],
                 !.gold = IF converted > 0
                          THEN _log(s.gold, "export_mode_labels_detected", <<"dataset">>,
                                    <<RowsAffected(Len(s.x))>>)
                          ELSE s.gold]

RECURSIVE Longitudinal(_, _, _)
\* the loop of lines 275-281 from row k on: the rows and the generator
Longitudinal(x, k, g) ==
    IF k > Len(x) THEN [x |-> x, rng |-> g]
    ELSE LET had == OGet(x[k], <<"redcap_event_name">>, <<>>)
             g1 == IF had = <<>> THEN RngNext(g) ELSE g
             event == IF had = <<>>
                      THEN rnd_choice(g1, << <<"baseline_arm_1">>, <<"followup_arm_1">> >>)
                      ELSE had
             g2 == RngNext(g1)
             g3 == RngNext(g2)
             row1 == OSet(x[k], <<"redcap_event_name">>, event)
         IN  IF RandomBelow(g2, 20)
             THEN Longitudinal(
                      [x EXCEPT ![k] = OSet(OSet(row1, <<"redcap_repeat_instrument">>, <<"followup">>),
                                            <<"redcap_repeat_instance">>,
                                            ToDigits(randrange(g3, 1, 4)))],
                      k + 1, g3)
             ELSE Longitudinal([x EXCEPT ![k] = row1], k + 1, g2)

\* 13) longitudinal context (lines 273-283)
longitudinal_context(s) ==
    LET r == Longitudinal(s.x, 1, s.rng)
    IN  IF s.x = <<>> THEN s
        ELSE [s EXCEPT
                 !.x = r.x,
                 !.gold = _log(s.gold, "longitudinal_context_detected", <<"dataset">>,
                               <<RowsAffected(Len(s.x))>>),
                 !.rng = r.rng]

\* the guard of recipe 3 without its label export half
DomainDriftWithLabels(enable) == Enabled(enable, "domain_drift")

\* the guard of recipe 3 (line 115): domain drift is skipped when label
\* export is enabled
DomainDriftOn(enable) == Enabled(enable, "domain_drift") /\ ~Enabled(enable, "label_export")

\* one recipe of apply_corruptions on the state s, by its number: skipped
\* when an earlier one raised or when its flag is off
Recipe(k, s, by_var, data_cols, enable) ==
    LET on(name) == Enabled(enable, name)
    IN  IF s.raised THEN s
        ELSE CASE k = 1 -> IF on("missing_extra_columns") /\ data_cols /= <<>>
                           THEN missing_extra_columns(s, by_var, data_cols) ELSE s
               [] k = 2 -> IF on("type_drift") THEN type_drift(s, by_var) ELSE s
               [] k = 3 -> IF DomainDriftOn(enable)
                           THEN domain_drift(s, by_var) ELSE s
               [] k = 4 -> IF on("unit_anomalies") THEN unit_anomalies(s) ELSE s
               [] k = 5 -> IF on("missingness_spikes") THEN missingness_spikes(s) ELSE s
               [] k = 6 -> IF on("rename_drift") THEN rename_drift(s) ELSE s
               [] k = 7 -> IF on("checkbox_expansion") THEN checkbox_expansion(s, by_var) ELSE s
               [] k = 8 -> IF on("branching_mismatch") THEN branching_mismatch(s) ELSE s
               [] k = 9 -> IF on("matrix_break") THEN matrix_break(s) ELSE s
               [] k = 10 -> IF on("primary_key") THEN primary_key(s) ELSE s
               [] k = 11 -> IF on("required_missing") THEN required_missing(s, by_var) ELSE s
               [] k = 12 -> IF on("label_export") THEN label_export(s, by_var) ELSE s
               [] k = 13 -> IF on("longitudinal_context") THEN longitudinal_context(s) ELSE s

RECURSIVE Recipes(_, _, _, _, _, _)
\* the recipes lo..hi in order, each on the state the one before it left
Recipes(lo, hi, s, by_var, data_cols, enable) ==
    IF lo = hi THEN Recipe(lo, s, by_var, data_cols, enable)
    ELSE CHOOSE r \in {Recipes((lo + hi) \div 2 + 1, hi, t, by_var, data_cols, enable) :
                          t \in {Recipes(lo, (lo + hi) \div 2, s, by_var, data_cols, enable)}} : TRUE

\* apply_corruptions(dict_rows, data_rows, seed, enable), called while the
\* generator of the random module is in state glob: whether it raised, the
\* (dict_rows', data_rows', gold) it returns, the state of the random
\* module after it, and what the caller's two arguments hold after it
apply_corruptions(dict_rows, data_rows, seed, enable, glob) ==
    LET returned(d_rows, x_rows, s) ==
            [raised |-> s.raised,
             d_rows |-> s.d, x_rows |-> s.x, gold |-> s.gold,
             glob |-> s.glob,
             dict_rows |-> CallerHolds(dict_rows, d_rows, s.d),
             data_rows |-> CallerHolds(data_rows, x_rows, s.x)]
        run(d_rows, x_rows) ==
            returned(d_rows, x_rows,
                Recipes(1, 13, [d |-> d_rows.obj, x |-> x_rows.obj, gold |-> <<>>,
                                rng |-> Random(seed), glob |-> glob, raised |-> FALSE],
                        _dict_by_var(d_rows.obj),
                        IF x_rows.obj /= <<>> THEN OKeys(x_rows.obj[1]) ELSE <<>>,
                        enable))
    IN  run(deepcopy(dict_rows), deepcopy(data_rows))

\* apply_since_last_run(dict_rows, data_rows, seed) (lines 288-312): a
\* choice more for satisfaction and a column more in the data
apply_since_last_run(dict_rows, data_rows, seed) ==
    LET rng == Random(seed + 1)
        sat(d2) == {i \in DOMAIN d2.obj : d2.obj[i].variable_name = <<"satisfaction">>}
        returned(d2, x2, adds, d3, x3) ==
            [raised |-> FALSE,
             d_rows |-> d3, x_rows |-> x3,
             gold |-> _log(IF adds
                           THEN _log(<<>>, "domain_mismatch_since_last_run", <<"satisfaction">>,
                                     << <<(<<"observed_added">>),
                                          PList(<<PStr(<<"5", "=", "Outstanding">>)>>)>>,
                                        RowsAffected(0)>>)
                           ELSE <<>>,
                           "extra_column_since_last_run", <<"new_since_last_run">>,
                           <<RowsAffected(Len(x3))>>),
             dict_rows |-> CallerHolds(dict_rows, d2, d3),
             data_rows |-> CallerHolds(data_rows, x2, x3)]
        change(d2, x2, i, raw, adds) ==
            returned(d2, x2, adds,
                IF adds
                THEN [d2.obj EXCEPT ![i].choices_calculations_or_slider_labels =
                         StripChars(raw \o <<" ", "|", " ", "5", ",", "Outstanding">>, {" ", "|"})]
                ELSE d2.obj,
                [k \in DOMAIN x2.obj |->
                    OSet(x2.obj[k], <<"new_since_last_run">>,
                         ToDigits(randrange(RngIter(rng, k), 0, 100)))])
        field(d2, x2, i) ==
            change(d2, x2, i, d2.obj[i].choices_calculations_or_slider_labels,
                   ~Contains(d2.obj[i].choices_calculations_or_slider_labels, <<"5", ",">>))
        run(d2, x2) ==
            IF sat(d2) = {} THEN change(d2, x2, 0, <<>>, FALSE)
            ELSE field(d2, x2, CHOOSE i \in sat(d2) : \A j \in sat(d2) : j <= i)
    IN  run(deepcopy(dict_rows), deepcopy(data_rows))
-----------------------------------------------------------------------------
(* The corpus seeder: dd_eval/seed.py                                      *)

\* f"proj{i:02d}" and the three run directories of a project
ProjName(i) == <<"proj">> \o Pad2(i)
CleanDir(i) == ProjName(i) \o <<"_", "clean">>
PerturbedDir(i) == ProjName(i) \o <<"_", "perturbed">>
PerturbedV2Dir(i) == ProjName(i) \o <<"_", "perturbed", "_", "v", "2">>

\* list(rows[0].keys()) if rows else []
FirstRowKeys(rows) == IF rows /= <<>> THEN OKeys(rows[1]) ELSE <<>>

\* the two write_csv calls, and write_json when gold is given, into the
\* run directory name: files of the directory that are not written stay
WriteRun(fs, name, d_rows, x_rows, gold) ==
    LET old == IF fs[name] = None
               THEN [dict |-> None, data |-> None, findings |-> None, ptr |-> None, gold |-> None]
               ELSE fs[name][1]
    IN  [fs EXCEPT ![name] =
            Some([old EXCEPT !.dict = Some(d_rows),
                             !.data = Some(write_csv(x_rows, FirstRowKeys(x_rows))),
                             !.gold = IF gold = None THEN @ ELSE gold])]

\* lines 48-54 of seed_corpus: the second perturbed version of project i
SeedV2(fs, i, p, q, gold1) ==
    [fs |-> WriteRun(fs, PerturbedV2Dir(i), q.d_rows, q.x_rows, Some(gold1 \o q.gold)),
     glob |-> p.glob, raised |-> FALSE]

\* lines 41-54: the perturbed versions of project i, p being what
\* apply_corruptions did
SeedPerturbed(fs, i, p, seed) ==
    IF p.raised THEN [fs |-> fs, glob |-> p.glob, raised |-> TRUE]
    ELSE CHOOSE r \in {SeedV2(WriteRun(fs, PerturbedDir(i), p.d_rows, p.x_rows, Some(p.gold)),
                              i, p, q, p.gold) :
                          q \in {apply_since_last_run(p.d_rows, p.x_rows, seed + i)}} : TRUE

\* lines 30-54: the body of the loop of seed_corpus for project i, dx
\* being what dictionary_and_data returned
SeedProject(fs, i, dx, seed, glob) ==
    CHOOSE r \in {SeedPerturbed(WriteRun(fs, CleanDir(i), dx[1], dx[2], None), i, p, seed) :
                     p \in {apply_corruptions(dx[1], dx[2], seed + i, <<>>, glob)}} : TRUE

RECURSIVE SeedProjects(_, _, _, _, _, _)
\* the loop of seed_corpus from project i on
SeedProjects(fs, i, n_projects, rows_per_project, seed, glob) ==
    IF i > n_projects THEN [fs |-> fs, glob |-> glob, raised |-> FALSE]
    ELSE LET rest(r) ==
                 IF r.raised THEN r
                 ELSE SeedProjects(r.fs, i + 1, n_projects, rows_per_project, seed, r.glob)
         IN  rest(CHOOSE r \in {SeedProject(fs, i, dx, seed, glob) :
                                   dx \in {dictionary_and_data(i, rows_per_project, seed)}} : TRUE)

\* seed_corpus(out_dir, n_projects, rows_per_project, seed) on the corpus
\* directory fs, the random module being in state glob: the directory
\* after it, whether it raised, and the random module after it
seed_corpus(fs, n_projects, rows_per_project, seed, glob) ==
    SeedProjects(fs, 1, n_projects, rows_per_project, seed, glob)
-----------------------------------------------------------------------------
(* The scoring harness as a state machine: the files of a corpus are       *)
(* edited one edit at a time and score_corpus is run after every edit.     *)

\* Bounds
MaxIssues == 3      \* issue records in all the files of the corpus together
MaxIoIssues == 1    \* the same, where files may also be malformed

T_mcd == <<"missing_column_in_data">>
T_cbx == <<"checkbox_expansion_mismatch">>
T_dm == <<"domain_mismatch">>

\* The issue records the edits draw from.  IssueC/IssueD hold the same
\* mapping with its keys in the two orders; IssueE/IssueF hold the same
\* list elements in the two orders.
IssueA == Issue(T_mcd, <<"foo">>, None, None)
IssueB == Issue(T_mcd, <<"sex">>, None, None)
IssueC == Issue(T_cbx, <<"symptoms">>, None,
                Some(PMap(<< <<(<<"observed_added">>), PStr(<<"symptoms", "___", "9">>)>>,
                             <<(<<"expected_missing">>), PStr(<<"symptoms", "___", "1">>)>> >>)))
IssueD == Issue(T_cbx, <<"symptoms">>, None,
                Some(PMap(<< <<(<<"expected_missing">>), PStr(<<"symptoms", "___", "1">>)>>,
                             <<(<<"observed_added">>), PStr(<<"symptoms", "___", "9">>)>> >>)))
IssueE == Issue(T_dm, <<"sex">>, Some(PList(<<PStr(<<"0", "=", "Male">>)>>)),
                Some(PList(<<PStr(<<"9">>), PStr(<<"x">>)>>)))
IssueF == Issue(T_dm, <<"sex">>, Some(PList(<<PStr(<<"0", "=", "Male">>)>>)),
                Some(PList(<<PStr(<<"x">>), PStr(<<"9">>)>>)))

\* what the edits may write into gold.json and into findings.json of each
\* run directory
GoldIssues(r) == IF r = "r1" THEN {IssueA, IssueB, IssueC, IssueE} ELSE {IssueA}
FindingIssues(r) == IF r = "r1" THEN {IssueA, IssueB, IssueD, IssueF} ELSE {IssueA, IssueB}

Modes == {"variable", "strict"}

TotalIssues(c) ==
    SumSeq([i \in DOMAIN RunDirs |->
               Len(c[RunDirs[i]].gold.items) + Len(c[RunDirs[i]].findings.items)])

Edit(kind, r, i) == [kind |-> kind, run |-> r, issue |-> i]

NoResult == [st |-> "none", metrics |-> <<>>]

InitScore ==
    /\ corpus = [r \in Range(RunDirs) |-> [gold |-> MissingFile, findings |-> MissingFile]]
    /\ mode \in Modes
    /\ result = NoResult
    /\ prevResult = NoResult
    /\ edits = <<>>
    /\ scoredEdits = <<>>
    /\ IdleCli /\ IdleSeed /\ IdleCorrupt /\ IdleRnd /\ IdleCheck

\* an edit is made between two runs of the harness
CanEdit == result.st /= "none" /\ edits = <<>>

\* a gold.json holding [] is written (seed_corpus writes gold.json whole)
WriteGold(r) ==
    /\ CanEdit
    /\ corpus[r].gold.st = "missing"
    /\ corpus' = [corpus EXCEPT ![r].gold = File("list", <<>>)]
    /\ edits' = <<Edit("write_gold", r, None)>>
    /\ UNCHANGED <<mode, result, prevResult, scoredEdits>>
    /\ UNCHANGED notScoreVars

\* one more record at the end of gold.json
AppendGold(r, i, cap) ==
    /\ CanEdit
    /\ corpus[r].gold.st = "list"
    /\ TotalIssues(corpus) < cap
    /\ corpus' = [corpus EXCEPT ![r].gold.items = Append(@, i)]
    /\ edits' = <<Edit("append_gold", r, Some(i))>>
    /\ UNCHANGED <<mode, result, prevResult, scoredEdits>>
    /\ UNCHANGED notScoreVars

\* a findings.json with no finding is written: dd-val writes the object
\* {"summary": ..., "findings": []}; a bare array is accepted too
WriteFindings(r, shape) ==
    /\ CanEdit
    /\ corpus[r].findings.st = "missing"
    /\ corpus' = [corpus EXCEPT ![r].findings = File(shape, <<>>)]
    /\ edits' = <<Edit("write_findings", r, None)>>
    /\ UNCHANGED <<mode, result, prevResult, scoredEdits>>
    /\ UNCHANGED notScoreVars

\* one more finding at the end of the findings of findings.json
AppendFinding(r, i, cap) ==
    /\ CanEdit
    /\ corpus[r].findings.st \in {"list", "dict"}
    /\ TotalIssues(corpus) < cap
    /\ corpus' = [corpus EXCEPT ![r].findings.items = Append(@, i)]
    /\ edits' = <<Edit("append_finding", r, Some(i))>>
    /\ UNCHANGED <<mode, result, prevResult, scoredEdits>>
    /\ UNCHANGED notScoreVars

\* gold.json is overwritten with text that is not JSON
GarbleGold(r) ==
    /\ CanEdit
    /\ corpus[r].gold.st /= "malformed"
    /\ corpus' = [corpus EXCEPT ![r].gold = File("malformed", <<>>)]
    /\ edits' = <<Edit("garble_gold", r, None)>>
    /\ UNCHANGED <<mode, result, prevResult, scoredEdits>>
    /\ UNCHANGED notScoreVars

\* findings.json is overwritten with text that is not JSON
GarbleFindings(r) ==
    /\ CanEdit
    /\ corpus[r].findings.st /= "malformed"
    /\ corpus' = [corpus EXCEPT ![r].findings = File("malformed", <<>>)]
    /\ edits' = <<Edit("garble_findings", r, None)>>
    /\ UNCHANGED <<mode, result, prevResult, scoredEdits>>
    /\ UNCHANGED notScoreVars

\* dd-score: score_corpus(corpus, mode)
Score ==
    /\ result.st = "none" \/ edits /= <<>>
    /\ result' = score_corpus(corpus, mode)
    /\ prevResult' = result
    /\ scoredEdits' = edits
    /\ edits' = <<>>
    /\ UNCHANGED <<corpus, mode>>
    /\ UNCHANGED notScoreVars

NextScore ==
    \/ Score
    \/ \E r \in Range(RunDirs) : WriteGold(r)
    \/ \E r \in Range(RunDirs) : \E i \in GoldIssues(r) : AppendGold(r, i, MaxIssues)
    \/ \E r \in Range(RunDirs) : \E shape \in {"list", "dict"} : WriteFindings(r, shape)
    \/ \E r \in Range(RunDirs) : \E i \in FindingIssues(r) : AppendFinding(r, i, MaxIssues)

SpecScore == InitScore /\ [][NextScore]_vars

NextScoreIO ==
    \/ Score
    \/ \E r \in Range(RunDirs) : WriteGold(r)
    \/ \E r \in Range(RunDirs) : \E i \in GoldIssues(r) : AppendGold(r, i, MaxIoIssues)
    \/ \E r \in Range(RunDirs) : \E shape \in {"list", "dict"} : WriteFindings(r, shape)
    \/ \E r \in Range(RunDirs) : \E i \in FindingIssues(r) : AppendFinding(r, i, MaxIoIssues)
    \/ \E r \in Range(RunDirs) : GarbleGold(r)
    \/ \E r \in Range(RunDirs) : GarbleFindings(r)

SpecScoreIO == InitScore /\ [][NextScoreIO]_vars

-----------------------------------------------------------------------------
(* Validation runs as a state machine: run directories are seeded with a   *)
(* dictionary and a dataset, a .prev pointer may be written into one, and  *)
(* dd-val is run in a run directory with some command line.                *)

P1 == <<"proj", "_", "perturbed">>
P2 == <<"proj", "_", "perturbed", "_", "v", "2">>
Q1 == <<"proj", "_", "v", "1">>
DirNames == {P1, P2, Q1}

\* the dictionary of the first version: seven fields of build_dictionary
DictV1 ==
    <<Row_record_id, Row_sex, Row_pregnant, Row_height_cm, Row_symptoms,
      Row_adls(<<"adls_wash">>), Row_adls(<<"adls_eat">>)>>

\* the dictionary of the second version: sex has one more choice
DictV2 ==
    [DictV1 EXCEPT ![2].choices_calculations_or_slider_labels =
                       @ \o <<" ", "|", " ", "2", ",", "Other">>]

ColsV1 ==
    << <<"record_id">>, <<"sex">>, <<"pregnant">>, <<"height_cm">>,
       <<"symptoms", "___", "1">>, <<"symptoms", "___", "2">>, <<"symptoms", "___", "3">>,
       <<"adls_wash">>, <<"adls_eat">> >>

\* a dataset that conforms to DictV1
DataClean ==
    [header |-> ColsV1,
     rows |-> << << <<"1", "0", "0", "0">>, <<"0">>, <<"0">>, <<"1", "7", "0", ".", "2">>,
                    <<"0">>, <<"1">>, <<"0">>, <<"1">>, <<>> >>,
                 << <<"1", "0", "0", "1">>, <<"1">>, <<"1">>, <<"1", "6", "1", ".", "5">>,
                    <<"1">>, <<"0">>, <<"0">>, <<"0">>, <<"1">> >> >>]

\* the same with defects: the key of row 1 repeated in row 2, a male
\* pregnant row, a height that is no number, a sex outside the choices, an
\* event column and a column no field declares
DataDefects ==
    [header |-> ColsV1 \o << <<"redcap_event_name">>, <<"extra_col">> >>,
     rows |-> << << <<"1", "0", "0", "0">>, <<"0">>, <<"1">>, <<"1", "7", "0", ".", "2", "x">>,
                    <<"0">>, <<"1">>, <<"0">>, <<"1">>, <<>>, <<"baseline_arm_1">>, <<"7">> >>,
                 << <<"1", "0", "0", "0">>, <<"9">>, <<"0">>, <<"1", "6", "1", ".", "5">>,
                    <<"1">>, <<"0">>, <<"0">>, <<"0">>, <<"1">>, <<"baseline_arm_1">>, <<"8">> >> >>]

\* the defective dataset of the second version: one more column
DataV2 ==
    [header |-> Append(DataDefects.header, <<"new_since_last_run">>),
     rows |-> [i \in DOMAIN DataDefects.rows |-> Append(DataDefects.rows[i], <<"4", "2">>)]]

\* the run directory of a project seeded with no rows
K1 == <<"proj", "_", "clean">>

\* its dataset.csv: seed_corpus takes the header from the first row, and
\* there is none
DataEmpty == [header |-> <<>>, rows |-> <<>>]

\* what seed_corpus writes into each run directory
FixtureOf(name) ==
    IF name = P1 THEN [dict |-> DictV1, data |-> DataDefects]
    ELSE IF name = P2 THEN [dict |-> DictV2, data |-> DataV2]
    ELSE IF name = K1 THEN [dict |-> DictV1, data |-> DataEmpty]
    ELSE [dict |-> DictV1, data |-> DataClean]

\* the lines a .prev file may hold: a sibling directory, a findings file, a
\* blank line, a path that does not exist
PointerTexts ==
    { <<"..", "/">> \o Q1 \o <<"\n">>,
      <<" ", "..", "/">> \o Q1 \o <<"/", "findings.json", "\n">>,
      <<" ", "\n">>,
      <<"..", "/", "nowhere", "\n">> }

\* the directories a pointer is written into
PointerDirs == {P2}

\* the command lines: --prev absent, empty, a findings file or a missing
\* file, with and without --no-prev
Args(p, n) == [prev_findings |-> p, no_prev |-> n]
ArgSet ==
    { Args(None, FALSE), Args(None, TRUE), Args(Some(<<>>), FALSE),
      Args(Some(Q1 \o <<"/", "findings.json">>), FALSE),
      Args(Some(<<"nowhere.json">>), TRUE) }

NoRun == [name |-> <<>>]

InitCli ==
    /\ disk = [n \in DirNames |-> None]
    /\ last = NoRun
    /\ IdleScore /\ IdleSeed /\ IdleCorrupt /\ IdleRnd /\ IdleCheck

\* seed_corpus writes dictionary.csv and dataset.csv of a run directory
SeedRun(name) ==
    /\ disk[name] = None
    /\ disk' = [disk EXCEPT ![name] = Some([dict |-> Some(FixtureOf(name).dict),
                                            data |-> Some(FixtureOf(name).data),
                                            findings |-> None, ptr |-> None])]
    /\ UNCHANGED last
    /\ UNCHANGED notCliVars

\* a .prev file is written into a run directory
WritePointer(name, text) ==
    /\ disk[name] /= None
    /\ disk[name][1].ptr /= Some(text)
    /\ disk' = [disk EXCEPT ![name] = Some([@[1] EXCEPT !.ptr = Some(text)])]
    /\ UNCHANGED last
    /\ UNCHANGED notCliVars

\* dd-val --dict name/dictionary.csv --data name/dataset.csv
\*        --out name/findings.json [--prev ...] [--no-prev]
\* last keeps, beside what the run did, what it found on the disk: the text
\* of the run directory's .prev file (ptr), the run directories that
\* existed (dirs) and those that held a findings.json (have).
Main(name, args) ==
    /\ disk[name] /= None
    /\ \E r \in {main(disk, name, args)} :
           /\ disk' = [disk EXCEPT ![name] = Some([@[1] EXCEPT !.findings = Some(r.out)])]
           /\ last' = [name |-> name, args |-> args, prev |-> r.prev,
                       consulted |-> r.consulted, baseline |-> r.baseline, out |-> r.out,
                       ptr |-> disk[name][1].ptr,
                       dirs |-> {n \in DOMAIN disk : disk[n] /= None},
                       have |-> {n \in DOMAIN disk : disk[n] /= None /\ disk[n][1].findings /= None}]
    /\ UNCHANGED notCliVars

NextCli ==
    \/ \E name \in DirNames : SeedRun(name)
    \/ \E name \in PointerDirs : \E text \in PointerTexts : WritePointer(name, text)
    \/ \E name \in DirNames : \E args \in ArgSet : Main(name, args)

SpecCli == InitCli /\ [][NextCli]_vars
-----------------------------------------------------------------------------
(* Seeding a corpus and validating it, as a state machine: dd-seed writes  *)
(* the corpus, then the validator is run over its run directories in       *)
(* sorted order, as _run_validator_over of scripts/selftest.py runs it.    *)

\* the rows per project, the seeds, the number of projects, and the states
\* the generator of the random module can be in when dd-seed starts
MaxRows == 2
MaxSeed == 7
NProjects == 1
MaxRnd == 1

SeedDirs == UNION {{CleanDir(i), PerturbedDir(i), PerturbedV2Dir(i)} : i \in 1..NProjects}

NotSeeded == [rows |-> -1]

InitSeed ==
    /\ disk = [n \in SeedDirs |-> None]
    /\ last = NoRun
    /\ seeding = NotSeeded
    /\ rnd \in 0..MaxRnd
    /\ IdleScore /\ IdleCorrupt /\ IdleCheck

\* dd-seed --projects NProjects --rows rows --seed seed
SeedCorpus(rows, seed) ==
    /\ seeding = NotSeeded
    /\ \E r \in {seed_corpus(disk, NProjects, rows, seed, rnd)} :
           /\ disk' = r.fs
           /\ rnd' = r.glob
           /\ seeding' = [rows |-> rows, seed |-> seed, raised |-> r.raised]
    /\ UNCHANGED last
    /\ UNCHANGED notSeedVars

\* sorted(base.rglob("dictionary.csv")), the parents that have a
\* dataset.csv too (lines 36-41 of _run_validator_over)
ValidatorDirs == {n \in DOMAIN disk : disk[n] /= None /\ disk[n][1].dict /= None /\ disk[n][1].data /= None}

\* the run directories the loop of _run_validator_over has not reached
PendingDirs == IF last = NoRun THEN ValidatorDirs ELSE {n \in ValidatorDirs : StrLess(last.name, n)}

\* one turn of the loop of _run_validator_over: dd-val in the next run
\* directory, with --dict, --data, --out and --html alone
RunValidator(name) ==
    /\ seeding /= NotSeeded
    /\ name \in PendingDirs
    /\ \A n \in PendingDirs \ {name} : StrLess(name, n)
    /\ Main(name, Args(None, FALSE))

NextSeed ==
    \/ \E rows \in 0..MaxRows : \E seed \in 0..MaxSeed : SeedCorpus(rows, seed)
    \/ \E name \in SeedDirs : RunValidator(name)

SpecSeed == InitSeed /\ [][NextSeed]_vars
-----------------------------------------------------------------------------
(* The corruption engine as a state machine: a caller holds a dictionary   *)
(* and a dataset and calls apply_corruptions and apply_since_last_run on   *)
(* them, in one process, so that the random module keeps its state from    *)
(* one call to the next.                                                   *)

\* the seeds of the held fixtures and the seeds of the calls
MaxGenSeed == 1
MaxCallSeed == 1

\* the enable arguments: None, and label export switched off (which is
\* what lets the domain drift recipe run)
EnableSets == {<<>>, [label_export |-> FALSE]}

InitCorrupt ==
    /\ held = NoInputs
    /\ call = NoCall
    /\ prevCall = NoCall
    /\ rnd = 0
    /\ IdleScore /\ IdleCli /\ IdleSeed /\ IdleCheck

\* the caller builds its inputs as seed_corpus does
Load(n, seed) ==
    /\ held = NoInputs
    /\ \E dd \in {dictionary_and_data(1, n, seed)} :
           held' = [dict |-> dd[1], data |-> dd[2]]
    /\ UNCHANGED <<call, prevCall, rnd>>
    /\ UNCHANGED notCorruptVars

\* apply_corruptions(held.dict, held.data, seed, enable)
ApplyCorruptions(seed, enable) ==
    /\ held /= NoInputs
    /\ prevCall = NoCall
    /\ \E r \in {apply_corruptions(held.dict, held.data, seed, enable, rnd)} :
           /\ call' = [fn |-> "apply_corruptions", dict |-> held.dict, data |-> held.data,
                       seed |-> seed, enable |-> enable, glob |-> rnd, raised |-> r.raised,
                       d_rows |-> r.d_rows, x_rows |-> r.x_rows, gold |-> r.gold]
           /\ held' = [dict |-> r.dict_rows, data |-> r.data_rows]
           /\ rnd' = r.glob
    /\ prevCall' = call
    /\ UNCHANGED notCorruptVars

\* apply_since_last_run(held.dict, held.data, seed)
ApplySinceLastRun(seed) ==
    /\ held /= NoInputs
    /\ prevCall = NoCall
    /\ \E r \in {apply_since_last_run(held.dict, held.data, seed)} :
           /\ call' = [fn |-> "apply_since_last_run", dict |-> held.dict, data |-> held.data,
                       seed |-> seed, enable |-> <<>>, glob |-> rnd, raised |-> r.raised,
                       d_rows |-> r.d_rows, x_rows |-> r.x_rows, gold |-> r.gold]
           /\ held' = [dict |-> r.dict_rows, data |-> r.data_rows]
    /\ prevCall' = call
    /\ UNCHANGED rnd
    /\ UNCHANGED notCorruptVars

NextCorrupt ==
    \/ \E n \in 0..MaxRows : \E seed \in 0..MaxGenSeed : Load(n, seed)
    \/ \E seed \in 0..MaxCallSeed : \E enable \in EnableSets : ApplyCorruptions(seed, enable)
    \/ \E seed \in 0..MaxCallSeed : ApplySinceLastRun(seed)

SpecCorrupt == InitCorrupt /\ [][NextCorrupt]_vars
-----------------------------------------------------------------------------
(* Validation runs against a prior run: the same machine over the run      *)
(* directories proj_perturbed, proj_perturbed_v2 and proj_clean (seeded    *)
(* with no rows), with .prev files that name the run directory itself or   *)
(* proj_clean.                                                             *)

SinceDirs == {P1, P2, K1}

\* the lines a .prev file may hold here: the run directory itself, the
\* sibling proj_clean
SincePointerTexts ==
    { <<".", "\n">>,
      <<"..", "/">> \o K1 \o <<"\n">> }

\* the command lines: auto-detection on, off, and a --prev that is no file
SinceArgSet ==
    { Args(None, FALSE), Args(None, TRUE), Args(Some(<<"nowhere.json">>), FALSE) }

InitSince ==
    /\ disk = [n \in SinceDirs |-> None]
    /\ last = NoRun
    /\ IdleScore /\ IdleSeed /\ IdleCorrupt /\ IdleRnd /\ IdleCheck

NextSince ==
    \/ \E name \in SinceDirs : SeedRun(name)
    \/ \E name \in PointerDirs : \E text \in SincePointerTexts : WritePointer(name, text)
    \/ \E name \in SinceDirs : \E args \in SinceArgSet : Main(name, args)

SpecSince == InitSince /\ [][NextSince]_vars
-----------------------------------------------------------------------------
(* Direct calls of one function: check_types and check_domains on a        *)
(* dictionary of one field and a dataset of one column,                    *)
(* check_matrix_consecutive on a dictionary before and after the matrix    *)
(* break recipe, check_columns on headers, and the naming inference of the *)
(* prior run on a directory tree.  Each behaviour is one call.             *)

\* how often the first value of a column is repeated, and how many empty
\* values end the column; between them the column holds a second value or
\* none
MaxRepeat == 19
MaxEmpty == 1

\* the rows of the dataset of a check_domains call
MaxDomRows == 3

\* the values of a typed column: an integer, a decimal, an integer with a
\* letter, a date YYYY-MM-DD and a date MM/DD/YYYY
TypeValues ==
    { <<"4", "5">>, <<"1", "6", "1", ".", "5">>, <<"4", "5", "x">>,
      <<"2", "0", "2", "4", "-", "0", "1", "-", "0", "5">>,
      <<"0", "1", "/", "0", "5", "/", "2", "0", "2", "4">> }

\* a text field and the dataset column of the call: the field's own
\* column, the column a rename hint leads to, or a column that is not the
\* field's
TypeCase(var, col, kind) == [var |-> var, col |-> col, kind |-> kind]
TypeCases ==
    {TypeCase(<<"age">>, <<"age">>, <<k>>) :
        k \in {"integer", "number", "date_ymd", "datetime_ymd", "date_mdy"}}
    \cup {TypeCase(<<"bp_sys">>, <<"sbp">>, <<"integer">>),
          TypeCase(<<"height_cm">>, <<"ht_cm">>, <<"number">>),
          TypeCase(<<"age">>, <<"other">>, <<"integer">>)}

\* the dictionary.csv of one field
OneField(var, field_type, validation, choices) ==
    <<_dd_row([variable_name |-> var, field_type |-> field_type,
               text_validation_type_or_show_slider_number |-> validation,
               choices_calculations_or_slider_labels |-> choices])>>

\* the dataset.csv of one column
OneColumn(col, values) == [header |-> <<col>>, rows |-> [i \in DOMAIN values |-> <<values[i]>>]]

\* n times the value v
Repeat(v, n) == [i \in 1..n |-> v]

\* the single-choice kinds of field and the values of their column
DomainTypes == {T_radio, T_dropdown, T_yesno, T_truefalse}
DomainValues == {<<>>, <<"0">>, <<"1">>, <<"9">>, <<"x">>}
DomainColumns == {<<"sex">>, <<"other">>}
DomainChoices(field_type) ==
    IF field_type \in {T_radio, T_dropdown} THEN _choices_str(sex_choices) ELSE <<>>

\* the dictionaries the matrix break recipe is run on: the generated ones
\* (the fields of the group adls are followed by notes) and the dictionary
\* of the first version (the fields of the group are its last rows)
MatrixDicts == {dictionary_and_data(1, 0, seed)[1] : seed \in 0..MaxGenSeed} \cup {DictV1}

\* the fields of the dictionaries of a check_columns call: two text fields,
\* one of them an original of the rename hints, and a checkbox field
ColumnFields ==
    << _dd_row([variable_name |-> <<"age">>, field_type |-> T_text,
                text_validation_type_or_show_slider_number |-> <<"integer">>]),
       _dd_row([variable_name |-> <<"bp_sys">>, field_type |-> T_text,
                text_validation_type_or_show_slider_number |-> <<"integer">>]),
       _dd_row([variable_name |-> <<"symptoms">>, field_type |-> T_checkbox,
                choices_calculations_or_slider_labels |-> _choices_str(symp_choices)]) >>

\* the columns of its datasets: declared variables, rename alternatives of
\* a declared and of an undeclared variable, declared and undeclared
\* expansion columns, the bare name of the checkbox field, a reserved
\* column and a column nothing declares
ColumnPool ==
    << <<"age">>, <<"bp_sys">>, <<"sbp">>, <<"dbp">>,
       <<"symptoms", "___", "1">>, <<"symptoms", "___", "2">>, <<"symptoms", "___", "9", "9", "9">>,
       <<"symptoms">>, <<"redcap_event_name">>, <<"extra_col">> >>

\* the elements of a list at the positions of a set, in the list's order
AtPositions(l, ps) == SelectSeq([i \in DOMAIN l |-> IF i \in ps THEN <<l[i]>> ELSE <<>>],
                                LAMBDA o : o /= <<>>)
Picked(l, ps) == [i \in DOMAIN AtPositions(l, ps) |-> AtPositions(l, ps)[i][1]]

\* the directory names of a naming inference, and how many sibling
\* directories hold a findings.json
MaxDirs == 2
NamePool ==
    { <<"proj">>, <<"proj", "_", "perturbed">>,
      <<"proj", "_", "perturbed", "_", "v", "0">>, <<"proj", "_", "perturbed", "_", "v", "1">>,
      <<"proj", "_", "perturbed", "_", "v", "2">>, <<"proj", "_", "perturbed", "_", "v", "3">>,
      <<"proj", "_", "v", "0">>, <<"proj", "_", "v", "1">>, <<"proj", "_", "v", "2">>,
      <<"proj", "_", "v", "9">>, <<"proj", "_", "v", "1", "0">>,
      <<"v", "0">>, <<"v", "1">>, <<"v", "2">> }

\* a findings.json without findings
EmptyFindings ==
    [kind |-> "object", summary |-> [dataset_columns |-> <<>>, dict_choices |-> <<>>],
     findings |-> <<>>]

\* the tree in which the directories of `done` hold a findings.json and
\* the directory cur exists
TreeOf(done, cur) ==
    [n \in NamePool |->
        IF n \in done \/ n = cur
        THEN Some([findings |-> IF n \in done THEN Some(EmptyFindings) ELSE None,
                   ptr |-> None, dict |-> None, data |-> None])
        ELSE None]

\* the key column of a check_primary_key call: up to MaxKeys distinct
\* keys, the first `twice` of them in two rows, the first of all in `more`
\* rows beyond, and up to MaxBlanks rows without a key
MaxKeys == 6
MaxBlanks == 2
KeyValue(i) == ToDigits(i)
\* a row without a key holds nothing or a space
BlankValue(i) == IF i % 2 = 1 THEN <<>> ELSE <<" ">>

\* the rows grouped by key, or every key once and then the repeats
KeyColumn(keys, twice, more, blanks, grouped) ==
    LET firsts == [i \in 1..keys |-> KeyValue(i)]
        seconds == [i \in 1..twice |-> KeyValue(i)]
        extra == [i \in 1..more |-> <<" ">> \o KeyValue(1)]
        none == [i \in 1..blanks |-> BlankValue(i)]
    IN  IF grouped
        THEN Flatten([i \in 1..keys |-> IF i <= twice THEN <<KeyValue(i), KeyValue(i)>>
                                                      ELSE <<KeyValue(i)>>]) \o none \o extra
        ELSE firsts \o none \o seconds \o extra

\* the dictionaries and the headers of the call: the key is record_id, or
\* the first field, or the first field is no column, or there is no field
KeyDict ==
    << _dd_row([variable_name |-> <<"pid">>, field_type |-> T_text]),
       _dd_row([variable_name |-> <<"age">>, field_type |-> T_text]) >>
KeyCases ==
    { [dict |-> KeyDict, header |-> << <<"pid">>, <<"record_id">> >>, at |-> 2],
      [dict |-> KeyDict, header |-> << <<"pid">>, <<"age">> >>, at |-> 1],
      [dict |-> KeyDict, header |-> << <<"record_id">>, <<"age">> >>, at |-> 1],
      [dict |-> KeyDict, header |-> << <<"notes">>, <<"age">> >>, at |-> 1],
      [dict |-> <<>>, header |-> << <<"notes">>, <<"age">> >>, at |-> 1] }

\* the dataset whose column `at` holds the values, the other column the
\* same value in every row
KeyData(header, at, values) ==
    [header |-> header,
     rows |-> [i \in DOMAIN values |-> [j \in 1..2 |-> IF j = at THEN values[i] ELSE <<"1">>]]]

\* a dictionary with a second field flagged as identifier, and a dataset
\* of one row for it
FlaggedDict ==
    << Row_record_id,
       _dd_row([variable_name |-> <<"mrn">>, field_type |-> T_text, identifier |-> <<"y">>]) >>
FlaggedData == << << <<(<<"record_id">>), <<"1">> >>, <<(<<"mrn">>), <<"7">> >> >> >>

\* the pairs the first recipe is run on
DropInputs ==
    {dictionary_and_data(1, n, gen) : n \in 1..MaxRows, gen \in 0..MaxGenSeed}
    \cup {<<FlaggedDict, FlaggedData>>}

\* the records of the first run of a scored corpus: two of one type and
\* one variable with different payloads, one of the type and another
\* variable, one of another type
IssueG == Issue(T_dm, <<"age">>, None, None)
ScorePool == <<IssueE, IssueF, IssueG, IssueA>>

\* the second run: none, one whose finding differs from its gold record
\* by the payload, or one whose finding is its gold record
SecondRuns ==
    { [gold |-> MissingFile, findings |-> MissingFile],
      [gold |-> File("list", <<IssueE>>), findings |-> File("dict", <<IssueF>>)],
      [gold |-> File("list", <<IssueG>>), findings |-> File("list", <<IssueG>>)] }

\* the list in the opposite order
Reversed(l) == [i \in DOMAIN l |-> l[Len(l) + 1 - i]]

\* a corpus with one record of a file written twice, the records of the
\* files in the opposite order, or the runs in each other's directory
Variant(c, how) ==
    CASE how = "duplicate_gold" ->
             [c EXCEPT !["r1"].gold.items = IF @ = <<>> THEN @ ELSE @ \o <<@[1]>>]
      [] how = "duplicate_finding" ->
             [c EXCEPT !["r1"].findings.items = IF @ = <<>> THEN @ ELSE <<@[Len(@)]>> \o @]
      [] how = "reorder_records" ->
             [c EXCEPT !["r1"].gold.items = Reversed(@), !["r1"].findings.items = Reversed(@)]
      [] how = "reorder_runs" -> [c EXCEPT !["r1"] = c["r2"], !["r2"] = c["r1"]]
Variants == {"duplicate_gold", "duplicate_finding", "reorder_records", "reorder_runs"}

InitChecks ==
    /\ checkCall = NoCheck
    /\ IdleScore /\ IdleCli /\ IdleSeed /\ IdleCorrupt /\ IdleRnd

\* check_types(load_dictionary(dict), data, headers of data)
CheckTypes ==
    /\ checkCall = NoCheck
    /\ \E c \in TypeCases : \E a \in TypeValues : \E g \in 0..MaxRepeat :
       \E other \in {<<>>} \cup {<<b>> : b \in TypeValues} : \E e \in 0..MaxEmpty :
       \E values \in {Repeat(a, g) \o other \o Repeat(<<>>, e)} :
       \E dict \in {OneField(c.var, T_text, c.kind, <<>>)} :
       \E data \in {OneColumn(c.col, values)} :
       \E fs \in {check_types(load_dictionary(dict), data, load_dataset_headers(data))} :
           checkCall' = [fn |-> "check_types", var |-> c.var, col |-> c.col, kind |-> c.kind,
                         values |-> values, findings |-> fs]
    /\ UNCHANGED notCheckVars

\* check_domains(load_dictionary(dict), data, headers of data)
CheckDomains ==
    /\ checkCall = NoCheck
    /\ \E field_type \in DomainTypes : \E col \in DomainColumns : \E n \in 0..MaxDomRows :
       \E values \in [1..n -> DomainValues] :
       \E dict \in {OneField(<<"sex">>, field_type, <<>>, DomainChoices(field_type))} :
       \E data \in {OneColumn(col, values)} :
       \E fs \in {check_domains(load_dictionary(dict), data, load_dataset_headers(data))} :
           checkCall' = [fn |-> "check_domains", var |-> <<"sex">>, col |-> col,
                         dd |-> load_dictionary(dict), values |-> values, findings |-> fs]
    /\ UNCHANGED notCheckVars

\* check_columns(load_dictionary(dict), headers of data)
CheckColumns ==
    /\ checkCall = NoCheck
    /\ \E fs \in SUBSET DOMAIN ColumnFields : \E cs \in SUBSET DOMAIN ColumnPool :
       \E dd \in {load_dictionary(Picked(ColumnFields, fs))} :
       \E cols \in {Picked(ColumnPool, cs)} :
           checkCall' = [fn |-> "check_columns", dd |-> dd, cols |-> cols,
                         findings |-> check_columns(dd, cols)]
    /\ UNCHANGED notCheckVars

\* _infer_prev_findings(cur_dir) for a directory of the tree
InferPrev ==
    /\ checkCall = NoCheck
    /\ \E cur \in NamePool : \E done \in SUBSET NamePool :
           /\ Cardinality(done) <= MaxDirs
           /\ checkCall' = [fn |-> "_infer_prev_findings", name |-> cur, done |-> done,
                            prev |-> _infer_prev_findings(TreeOf(done, cur), cur)]
    /\ UNCHANGED notCheckVars

\* check_primary_key(load_dictionary(dict), data, headers of data)
CheckPrimaryKey ==
    /\ checkCall = NoCheck
    /\ \E c \in KeyCases : \E keys \in 0..MaxKeys : \E twice \in 0..MaxKeys :
       \E more \in 0..1 : \E blanks \in 0..MaxBlanks : \E grouped \in BOOLEAN :
           /\ twice <= keys
           /\ more = 1 => keys >= 1
           /\ \E values \in {KeyColumn(keys, twice, more, blanks, grouped)} :
              \E data \in {KeyData(c.header, c.at, values)} :
                  checkCall' = [fn |-> "check_primary_key", dd |-> load_dictionary(c.dict),
                                cols |-> c.header, at |-> c.at, values |-> values,
                                findings |-> check_primary_key(load_dictionary(c.dict), data,
                                                               load_dataset_headers(data))]
    /\ UNCHANGED notCheckVars

\* the first recipe of apply_corruptions(d, x, seed), on its own
DropColumn ==
    /\ checkCall = NoCheck
    /\ \E dd \in DropInputs : \E seed \in 0..MaxCallSeed :
       \E s \in {missing_extra_columns([d |-> dd[1], x |-> dd[2], gold |-> <<>>,
                                         rng |-> Random(seed), glob |-> 0, raised |-> FALSE],
                                        _dict_by_var(dd[1]), OKeys(dd[2][1]))} :
           checkCall' = [fn |-> "missing_extra_columns", dict |-> dd[1], data |-> dd[2],
                         seed |-> seed, x_rows |-> s.x, gold |-> s.gold]
    /\ UNCHANGED notCheckVars

\* score_corpus(corpus, mode) in the two modes, and on a variant of the
\* corpus
ScoreCorpus ==
    /\ checkCall = NoCheck
    /\ \E gs \in SUBSET DOMAIN ScorePool : \E fs \in SUBSET DOMAIN ScorePool :
       \E second \in SecondRuns : \E how \in Variants : \E m \in Modes :
       \E c \in {[r \in Range(RunDirs) |->
                     IF r = "r1" THEN [gold |-> File("list", Picked(ScorePool, gs)),
                                       findings |-> File("list", Picked(ScorePool, fs))]
                     ELSE second]} :
       \E v \in {Variant(c, how)} :
       \E scored \in {[x \in {c, v} \X Modes |-> score_corpus(x[1], x[2])]} :
           checkCall' = [fn |-> "score_corpus", corpus |-> c, how |-> how, mode |-> m,
                         varied |-> v,
                         metrics |-> scored[<<c, m>>],
                         variedMetrics |-> scored[<<v, m>>],
                         other |-> scored[<<c, IF m = "strict" THEN "variable" ELSE "strict">>]]
    /\ UNCHANGED notCheckVars

\* the matrix break recipe on a dictionary, while the generator of the
\* random module is in some state glob, and check_matrix_consecutive on
\* the dictionary before and after it
BreakMatrix ==
    /\ checkCall = NoCheck
    /\ \E dict \in MatrixDicts : \E glob \in 0..MaxRnd :
       \E s \in {matrix_break([d |-> dict, x |-> <<>>, gold |-> <<>>, rng |-> Random(0),
                               glob |-> glob, raised |-> FALSE])} :
           checkCall' = [fn |-> "matrix_break", dict |-> dict, d_rows |-> s.d, gold |-> s.gold,
                         before |-> check_matrix_consecutive(load_dictionary(dict)),
                         findings |-> check_matrix_consecutive(load_dictionary(s.d))]
    /\ UNCHANGED notCheckVars

NextChecks == CheckTypes \/ CheckDomains \/ BreakMatrix \/ CheckColumns \/ InferPrev \/ CheckPrimaryKey \/ DropColumn \/ ScoreCorpus

SpecChecks == InitChecks /\ [][NextChecks]_vars
-----------------------------------------------------------------------------
(* One call of apply_corruptions, with the recipes of the call that        *)
(* logged a gold record and changed nothing.  Each behaviour is one call.  *)

RecipeNames ==
    {"missing_extra_columns", "type_drift", "domain_drift", "unit_anomalies",
     "missingness_spikes", "rename_drift", "checkbox_expansion", "branching_mismatch",
     "matrix_break", "primary_key", "required_missing", "label_export",
     "longitudinal_context"}

\* the enable argument that switches on the recipes named and no other
Only(names) == [n \in RecipeNames |-> n \in names]

\* the seeds of the call
MaxRecipeSeed == 3

\* the enable arguments: None, domain drift and label export alone, and
\* one recipe alone
RecipeEnableSets ==
    {<<>>, Only({"domain_drift", "label_export"})}
    \cup {Only({n}) : n \in {"domain_drift", "label_export", "checkbox_expansion",
                              "matrix_break", "primary_key", "required_missing"}}

RECURSIVE RecipeEffects(_, _, _, _, _, _)
\* the recipes lo..hi in order on the state s: the state they leave, and
\* the numbers of those that appended to the gold list and left the
\* dictionary and the dataset as they were before them
RecipeEffects(lo, hi, s, by_var, data_cols, enable) ==
    IF lo = hi
    THEN CHOOSE r \in {[s |-> t,
                        silent |-> IF t.gold /= s.gold /\ t.d = s.d /\ t.x = s.x
                                   THEN {lo} ELSE {}] :
                          t \in {Recipe(lo, s, by_var, data_cols, enable)}} : TRUE
    ELSE LET right(t) ==
                 CHOOSE r \in {[s |-> u.s, silent |-> t.silent \cup u.silent] :
                                  u \in {RecipeEffects((lo + hi) \div 2 + 1, hi, t.s,
                                                       by_var, data_cols, enable)}} : TRUE
         IN  CHOOSE r \in {right(t) :
                              t \in {RecipeEffects(lo, (lo + hi) \div 2, s,
                                                   by_var, data_cols, enable)}} : TRUE

\* the recipes of apply_corruptions(dict_rows, data_rows, seed, enable)
\* that logged and changed nothing
SilentRecipes(dict_rows, data_rows, seed, enable, glob) ==
    RecipeEffects(1, 13, [d |-> dict_rows, x |-> data_rows, gold |-> <<>>,
                          rng |-> Random(seed), glob |-> glob, raised |-> FALSE],
                  _dict_by_var(dict_rows),
                  IF data_rows /= <<>> THEN OKeys(data_rows[1]) ELSE <<>>,
                  enable).silent

InitRecipes ==
    /\ held = NoInputs
    /\ call = NoCall
    /\ prevCall = NoCall
    /\ rnd = 0
    /\ IdleScore /\ IdleCli /\ IdleSeed /\ IdleCheck

\* the pairs the call is made on: the generated ones, and the dictionary
\* and the clean dataset of the first version
RecipeInputs ==
    {dictionary_and_data(1, n, gen) : n \in 0..MaxRows, gen \in 0..MaxGenSeed}
    \cup {<<DictV1, [k \in DOMAIN DataClean.rows |->
                        [i \in DOMAIN DataClean.header |->
                            <<DataClean.header[i], DataClean.rows[k][i]>>]]>>}

\* apply_corruptions(d, x, seed, enable) while the generator of the random
\* module is in state glob
Corrupt ==
    /\ call = NoCall
    /\ \E dd \in RecipeInputs :
       \E seed \in 0..MaxRecipeSeed : \E enable \in RecipeEnableSets : \E glob \in 0..MaxRnd :
       \E r \in {apply_corruptions(dd[1], dd[2], seed, enable, glob)} :
           /\ call' = [fn |-> "apply_corruptions", dict |-> dd[1], data |-> dd[2],
                       seed |-> seed, enable |-> enable, glob |-> glob, raised |-> r.raised,
                       d_rows |-> r.d_rows, x_rows |-> r.x_rows, gold |-> r.gold,
                       silent |-> SilentRecipes(dd[1], dd[2], seed, enable, glob)]
           /\ held' = [dict |-> r.dict_rows, data |-> r.data_rows]
           /\ rnd' = r.glob
    /\ UNCHANGED prevCall
    /\ UNCHANGED notCorruptVars

NextRecipes == Corrupt

SpecRecipes == InitRecipes /\ [][NextRecipes]_vars
-----------------------------------------------------------------------------
(* Claims about the scoring harness                                        *)

\* the harness has been run on the corpus as it is now
Scored == edits = <<>> /\ result.st /= "none"

ScoredRuns(c) == {r \in DOMAIN c : c[r].gold.st /= "missing"}
GoldKeys(c, r, m) == {_key(c[r].gold.items[i], m) : i \in DOMAIN c[r].gold.items}
PredKeys(c, r, m) == {_key(c[r].findings.items[i], m) : i \in DOMAIN c[r].findings.items}
TypesIn(c, m) == {k[1] : k \in UNION {GoldKeys(c, r, m) \cup PredKeys(c, r, m) : r \in ScoredRuns(c)}}

\* the (run, key) pairs of type t that are true positives, false positives
\* and false negatives, over all the runs that have a gold file
TruePos(c, m, t) ==
    UNION {{<<r, k>> : k \in {kk \in GoldKeys(c, r, m) \cap PredKeys(c, r, m) : kk[1] = t}} :
           r \in ScoredRuns(c)}
FalsePos(c, m, t) ==
    UNION {{<<r, k>> : k \in {kk \in PredKeys(c, r, m) \ GoldKeys(c, r, m) : kk[1] = t}} :
           r \in ScoredRuns(c)}
FalseNeg(c, m, t) ==
    UNION {{<<r, k>> : k \in {kk \in GoldKeys(c, r, m) \ PredKeys(c, r, m) : kk[1] = t}} :
           r \in ScoredRuns(c)}

\* q is the quotient n/d, or 0 when d is 0
IsQuotient(q, n, d) == IF d = 0 THEN q = <<0, 1>> ELSE q[1] * d = n * q[2] /\ q[2] > 0

PrecisionOf(res, t) == IF t \in DOMAIN res.metrics THEN res.metrics[t].precision ELSE RatZero
RecallOf(res, t) == IF t \in DOMAIN res.metrics THEN res.metrics[t].recall ELSE RatZero

\* the spec's scenario: one run whose gold and findings hold the same single
\* (missing_column_in_data, "foo") record
ScenarioOneMatch ==
    /\ corpus["r1"].gold = File("list", <<IssueA>>)
    /\ corpus["r1"].findings.items = <<IssueA>>
    /\ corpus["r2"].gold.st = "missing"

\* C5: score_corpus returns, for exactly the types met in the scored runs,
\* precision = tp/(tp+fp), recall = tp/(tp+fn) and f1 = their harmonic mean
\* (= 2tp/(2tp+fp+fn)), each 0 on a zero denominator, where tp, fp and fn
\* count the keys in both sets, predicted only and gold only, summed over the
\* runs that have a gold file; the one-match scenario scores 1, 1, 1.
C5_ScoreFormula ==
    (Scored /\ result.st = "ok") =>
        /\ DOMAIN result.metrics = TypesIn(corpus, mode)
        /\ \A t \in DOMAIN result.metrics :
              LET tp == Cardinality(TruePos(corpus, mode, t))
                  fp == Cardinality(FalsePos(corpus, mode, t))
                  fn == Cardinality(FalseNeg(corpus, mode, t))
                  mt == result.metrics[t]
              IN  /\ IsQuotient(mt.precision, tp, tp + fp)
                  /\ IsQuotient(mt.recall, tp, tp + fn)
                  /\ IsQuotient(mt.f1, 2 * tp, 2 * tp + fp + fn)
        /\ ScenarioOneMatch =>
              result.metrics = (T_mcd :> [precision |-> <<1, 1>>, recall |-> <<1, 1>>,
                                          f1 |-> <<1, 1>>])

C5_Witness ==
    /\ Scored /\ result.st = "ok"
    /\ ScenarioOneMatch
    /\ result.metrics[T_mcd].f1 = <<1, 1>>

\* The corpus before the single append that separates prevResult from result.
CorpusBefore ==
    LET e == scoredEdits[1]
    IN  IF e.kind = "append_finding"
        THEN [corpus EXCEPT ![e.run].findings.items = SubSeq(@, 1, Len(@) - 1)]
        ELSE IF e.kind = "append_gold"
        THEN [corpus EXCEPT ![e.run].gold.items = SubSeq(@, 1, Len(@) - 1)]
        ELSE corpus

\* the last run of the harness followed the append, to a run that has a
\* gold file, of one finding whose key is new among the run's predicted keys
\* and matches no gold record: one more false positive
AddedFalsePositive ==
    /\ Scored /\ result.st = "ok" /\ prevResult.st = "ok"
    /\ Len(scoredEdits) = 1 /\ scoredEdits[1].kind = "append_finding"
    /\ corpus[scoredEdits[1].run].gold.st /= "missing"
    /\ _key(scoredEdits[1].issue[1], mode) \notin GoldKeys(corpus, scoredEdits[1].run, mode)
    /\ _key(scoredEdits[1].issue[1], mode) \notin PredKeys(CorpusBefore, scoredEdits[1].run, mode)

\* the last run of the harness followed the append of one gold record whose
\* key is new among the run's gold keys and that no finding of the run
\* matches: one more missed record
AddedMissedGold ==
    /\ Scored /\ result.st = "ok" /\ prevResult.st = "ok"
    /\ Len(scoredEdits) = 1 /\ scoredEdits[1].kind = "append_gold"
    /\ _key(scoredEdits[1].issue[1], mode) \notin PredKeys(corpus, scoredEdits[1].run, mode)
    /\ _key(scoredEdits[1].issue[1], mode) \notin GoldKeys(CorpusBefore, scoredEdits[1].run, mode)

AddedType == scoredEdits[1].issue[1].type

\* C6 as stated: a false positive added to a run strictly decreases the
\* precision of its type, or leaves it unchanged only if the type had no
\* true positive and no false positive before (0/0).
C6_Original ==
    AddedFalsePositive =>
        \/ RatLess(PrecisionOf(result, AddedType), PrecisionOf(prevResult, AddedType))
        \/ /\ PrecisionOf(result, AddedType) = PrecisionOf(prevResult, AddedType)
           /\ TruePos(CorpusBefore, mode, AddedType) = {}
           /\ FalsePos(CorpusBefore, mode, AddedType) = {}

\* C6 amended: a false positive added to a run strictly decreases the
\* precision of its type when the type had a true positive, and leaves the
\* precision at 0 when it had none (0/0 or 0/fp).
C6_PrecisionMonotone ==
    AddedFalsePositive =>
        IF TruePos(CorpusBefore, mode, AddedType) /= {}
        THEN RatLess(PrecisionOf(result, AddedType), PrecisionOf(prevResult, AddedType))
        ELSE /\ PrecisionOf(result, AddedType) = RatZero
             /\ PrecisionOf(prevResult, AddedType) = RatZero

C6_Witness ==
    /\ AddedFalsePositive
    /\ TruePos(CorpusBefore, mode, AddedType) /= {}
    /\ PrecisionOf(prevResult, AddedType) = <<1, 1>>
    /\ PrecisionOf(result, AddedType) = <<1, 2>>

\* C7 as stated: a missed gold record added to a run strictly decreases the
\* recall of its type (a type the harness already reported).
C7_Original ==
    (AddedMissedGold /\ AddedType \in DOMAIN prevResult.metrics) =>
        RatLess(RecallOf(result, AddedType), RecallOf(prevResult, AddedType))

\* C7 amended: a missed gold record added to a run strictly decreases the
\* recall of its type when the type had a true positive, and leaves the
\* recall at 0 when it had none.
C7_RecallMonotone ==
    AddedMissedGold =>
        IF TruePos(CorpusBefore, mode, AddedType) /= {}
        THEN RatLess(RecallOf(result, AddedType), RecallOf(prevResult, AddedType))
        ELSE /\ RecallOf(result, AddedType) = RatZero
             /\ RecallOf(prevResult, AddedType) = RatZero

C7_Witness ==
    /\ AddedMissedGold
    /\ TruePos(CorpusBefore, mode, AddedType) /= {}
    /\ RecallOf(prevResult, AddedType) = <<1, 1>>
    /\ RecallOf(result, AddedType) = <<1, 2>>

\* the permutations of 1..n
Perms(n) == {f \in [1..n -> 1..n] : \A i, j \in 1..n : f[i] = f[j] => i = j}

RECURSIVE SameElements(_, _)
\* p and q hold the same elements, whatever the order of the keys of their
\* mappings and of the elements of their lists
SameElements(p, q) ==
    /\ p.k = q.k
    /\ CASE p.k = "str" -> p.v = q.v
         [] p.k = "list" ->
               /\ Len(p.v) = Len(q.v)
               /\ \E f \in Perms(Len(p.v)) : \A i \in DOMAIN p.v : SameElements(p.v[i], q.v[f[i]])
         [] p.k = "map" ->
               /\ Len(p.v) = Len(q.v)
               /\ \E f \in Perms(Len(p.v)) : \A i \in DOMAIN p.v :
                     /\ p.v[i][1] = q.v[f[i]][1]
                     /\ SameElements(p.v[i][2], q.v[f[i]][2])

RECURSIVE SameUpToKeyOrder(_, _)
\* p and q are the same JSON value: mappings equal as sets of entries, lists
\* equal element by element
SameUpToKeyOrder(p, q) ==
    /\ p.k = q.k
    /\ CASE p.k = "str" -> p.v = q.v
         [] p.k = "list" ->
               /\ Len(p.v) = Len(q.v)
               /\ \A i \in DOMAIN p.v : SameUpToKeyOrder(p.v[i], q.v[i])
         [] p.k = "map" ->
               /\ Len(p.v) = Len(q.v)
               /\ \E f \in Perms(Len(p.v)) : \A i \in DOMAIN p.v :
                     /\ p.v[i][1] = q.v[f[i]][1]
                     /\ SameUpToKeyOrder(p.v[i][2], q.v[f[i]][2])

\* the same, for payloads that may be absent
OptSameElements(a, b) ==
    /\ Len(a) = Len(b)
    /\ Len(a) = 1 => SameElements(a[1], b[1])

OptSameUpToKeyOrder(a, b) ==
    /\ Len(a) = Len(b)
    /\ Len(a) = 1 => SameUpToKeyOrder(a[1], b[1])

\* the gold record g and the finding f of one scored run, pair by pair
GoldFindingPairs ==
    UNION {{<<corpus[r].gold.items[i], corpus[r].findings.items[j]>> :
               i \in DOMAIN corpus[r].gold.items, j \in DOMAIN corpus[r].findings.items} :
           r \in ScoredRuns(corpus)}

SameTypeAndVariable(g, f) == g.type = f.type /\ g.variable = f.variable

\* C8 as stated: in strict mode a gold record and a finding with the same
\* type and variable whose payloads hold the same elements in any order
\* (mapping keys or list elements) get equal keys and count as a true
\* positive.
C8_Original ==
    (Scored /\ result.st = "ok" /\ mode = "strict") =>
        \A pr \in GoldFindingPairs :
            (/\ SameTypeAndVariable(pr[1], pr[2])
             /\ OptSameElements(pr[1].expected, pr[2].expected)
             /\ OptSameElements(pr[1].observed, pr[2].observed))
            => /\ _key(pr[1], "strict") = _key(pr[2], "strict")
               /\ RatLess(RatZero, PrecisionOf(result, pr[1].type))

\* C8 amended: in strict mode a gold record and a finding get equal keys
\* exactly when they have the same type and variable and their payloads are
\* equal up to the order of mapping keys (lists holding the same elements
\* in another order get different keys), and then they count as a true
\* positive; in variable mode the key is (type, variable) only.
C8_StrictKey ==
    (Scored /\ result.st = "ok") =>
        \A pr \in GoldFindingPairs :
            LET same == IF mode = "strict"
                        THEN /\ SameTypeAndVariable(pr[1], pr[2])
                             /\ OptSameUpToKeyOrder(pr[1].expected, pr[2].expected)
                             /\ OptSameUpToKeyOrder(pr[1].observed, pr[2].observed)
                        ELSE SameTypeAndVariable(pr[1], pr[2])
            IN  /\ (_key(pr[1], mode) = _key(pr[2], mode)) <=> same
                /\ same => /\ RatLess(RatZero, PrecisionOf(result, pr[1].type))
                           /\ RatLess(RatZero, RecallOf(result, pr[1].type))

C8_Witness ==
    /\ Scored /\ result.st = "ok" /\ mode = "strict"
    /\ corpus["r1"].gold.items = <<IssueC>>
    /\ corpus["r1"].findings.items = <<IssueD>>
    /\ result.metrics[T_cbx] = [precision |-> <<1, 1>>, recall |-> <<1, 1>>, f1 |-> <<1, 1>>]

\* the corpus with every malformed file replaced by an empty list
Sanitized(c) ==
    [r \in DOMAIN c |->
        [gold |-> IF c[r].gold.st = "malformed" THEN File("list", <<>>) ELSE c[r].gold,
         findings |-> IF c[r].findings.st = "malformed" THEN File("list", <<>>)
                      ELSE c[r].findings]]

\* C9 as stated (the scorer): a missing or malformed gold.json or
\* findings.json is treated as an empty list and is never fatal, so
\* score_corpus returns the metrics of the corpus read that way.
C9_NeverFatal ==
    Scored =>
        /\ result.st = "ok"
        /\ result.metrics = score_corpus(Sanitized(corpus), mode).metrics

-----------------------------------------------------------------------------
(* Claims about a validation run (SpecCli)                                 *)

\* a run of dd-val has been made
Ran == last.name /= <<>>

\* the dictionary and the dataset of the last run
LastDict == load_dictionary(FixtureOf(last.name).dict)
LastData == FixtureOf(last.name).data
LastCols == LastData.header

\* the findings of every check of the catalogue, concatenated
Catalogue(dd, ds, cols) ==
    check_columns(dd, cols)
    \o check_rename_drift(dd, cols)
    \o check_checkbox_mismatch(dd, cols)
    \o check_types(dd, ds, cols)
    \o check_domains(dd, ds, cols)
    \o check_unit_anomaly(dd, ds, cols)
    \o check_missingness_spike(ds, cols)
    \o check_required_fields(dd, ds, cols)
    \o check_primary_key(dd, ds, cols)
    \o check_branching(dd, ds, cols)
    \o check_matrix_consecutive(dd)
    \o detect_export_mode_labels(dd, ds, cols)
    \o check_longitudinal_context(ds, cols)

SinceTypes == {<<"extra_column_since_last_run">>, <<"domain_mismatch_since_last_run">>}

\* the columns of the prior run's dataset, {} when the run had no baseline
LastPrevCols ==
    IF last.baseline
    THEN Range(FixtureOf(last.prev[1][2]).data.header)
    ELSE {}

\* what the claim has the run emit from the checks
CatalogueFindings ==
    LET kept == SelectSeq(Catalogue(LastDict, LastData, LastCols),
                    LAMBDA f : ~(/\ LastPrevCols /= {}
                                 /\ f.type = <<"extra_column_in_data">>
                                 /\ f.variable \in Range(LastCols) \ LastPrevCols))
    IN  [i \in DOMAIN kept |-> as_dict(kept[i])]

\* C4: a validation run emits the concatenation of the findings of every
\* check of the catalogue (column presence, rename drift, checkbox
\* expansion, types, domains, unit anomaly, missingness spike, required
\* fields, primary key, branching, matrix contiguity, export-mode labels,
\* longitudinal context), less only the extra_column_in_data findings the
\* since-last-run rule suppresses.  The findings are compared as a set, so
\* that the order in which the checks are run does not matter.
C4_AllChecks ==
    Ran => Range(SelectSeq(last.out.findings, LAMBDA f : f.type \notin SinceTypes))
               = Range(CatalogueFindings)

\* ---- C10: precedence of the prior result

Explicit == last.args.prev_findings /= None /\ last.args.prev_findings[1] /= <<>>

\* p is a directory, or a findings.json, that the run found on the disk
FoundDir(p) == p \in {<<>>, <<Root>>} \/ (Len(p) = 2 /\ p[1] = Root /\ p[2] \in last.dirs)
FoundFindings(p) == Len(p) = 3 /\ p[1] = Root /\ p[2] \in last.have /\ p[3] = FINDINGS

\* the findings file the run directory's .prev file names: the file
\* itself or the findings.json of the directory it names, when it exists
PointerPrior ==
    IF last.ptr = None THEN None
    ELSE LET raw == Strip(last.ptr[1])
             target == PathOf(raw, RunPath(last.name))
             file == IF FoundDir(target) THEN Append(target, FINDINGS) ELSE target
         IN  IF raw /= <<>> /\ FoundFindings(file) THEN Some(file) ELSE None

\* the findings file the naming convention gives: proj_perturbed for
\* proj_perturbed_v2, nothing for proj_perturbed and proj_v1
NamingPrior ==
    IF last.name = P2 /\ P1 \in last.have THEN Some(<<Root, P1, FINDINGS>>) ELSE None

\* C10: the prior result is chosen by strict precedence: an explicit path
\* is used and neither inference is consulted; without one and with
\* --no-prev nothing is resolved and nothing consulted; otherwise the .prev
\* pointer is used when it names an existing findings file or a directory
\* holding one, and the naming inference is consulted only when the
\* pointer yields nothing.
C10_Precedence ==
    Ran =>
        IF Explicit
        THEN /\ last.prev = Some(PathOf(last.args.prev_findings[1], Cwd))
             /\ last.consulted = {}
        ELSE IF last.args.no_prev
        THEN last.prev = None /\ last.consulted = {}
        ELSE IF PointerPrior /= None
        THEN last.prev = PointerPrior /\ last.consulted = {"pointer"}
        ELSE last.prev = NamingPrior /\ last.consulted = {"pointer", "naming"}

\* a run in proj_perturbed_v2 with no explicit path and auto-detection on,
\* whose pointer names proj_v1 while proj_perturbed holds findings too:
\* the pointer's target is the prior
C10_Witness ==
    /\ Ran /\ last.name = P2 /\ ~Explicit /\ ~last.args.no_prev
    /\ PointerPrior = Some(<<Root, Q1, FINDINGS>>)
    /\ NamingPrior /= None
    /\ last.prev = PointerPrior
    /\ last.baseline
-----------------------------------------------------------------------------
(* Claims about seeded corpora (SpecSeed)                                  *)

\* the run directories of clean runs: those seed_corpus writes from the
\* generated dictionary and dataset with no recipe applied
CleanDirs == {CleanDir(i) : i \in 1..NProjects}

\* the findings of severity error that findings.json of a run directory
\* holds
ErrorsOf(name) ==
    LET fs == disk[name][1].findings[1].findings
    IN  {i \in DOMAIN fs : fs[i].severity = <<"error">>}

\* C1: the findings of every clean run (a dataset generated to conform to
\* its dictionary, no recipe applied) hold no finding of severity error.
C1_CleanNoErrors ==
    \A name \in CleanDirs :
        (disk[name] /= None /\ disk[name][1].findings /= None) => ErrorsOf(name) = {}

\* the same for the corpora seeded with at least one row per project
C1_CleanNoErrorsWithRows ==
    seeding.rows >= 1 => C1_CleanNoErrors
-----------------------------------------------------------------------------
(* Claims about the corruption engine (SpecCorrupt)                        *)

\* the two last calls were calls of apply_corruptions with the same
\* dictionary, the same dataset, the same seed and the same enable flags
SameArguments ==
    /\ call /= NoCall /\ prevCall /= NoCall
    /\ call.fn = "apply_corruptions" /\ prevCall.fn = "apply_corruptions"
    /\ call.dict = prevCall.dict /\ call.data = prevCall.data
    /\ call.seed = prevCall.seed /\ call.enable = prevCall.enable

\* C2: two calls of apply_corruptions with the same dictionary, dataset,
\* seed and enable flags return the same perturbed dictionary, the same
\* perturbed dataset and the same gold list.
C2_Deterministic ==
    SameArguments =>
        /\ call.raised = prevCall.raised
        /\ call.d_rows = prevCall.d_rows
        /\ call.x_rows = prevCall.x_rows
        /\ call.gold = prevCall.gold

\* C3: after a call of apply_corruptions or apply_since_last_run the
\* caller's dictionary rows and dataset rows are what they were before the
\* call, whatever the seed and the enable flags.
C3_InputsNotMutated ==
    call /= NoCall => held.dict = call.dict /\ held.data = call.data

\* both functions have been called, neither raised, and each returned a
\* dictionary and a dataset that differ from the ones it was given
C3_Witness ==
    /\ call /= NoCall /\ prevCall /= NoCall
    /\ {call.fn, prevCall.fn} = {"apply_corruptions", "apply_since_last_run"}
    /\ ~call.raised /\ ~prevCall.raised
    /\ call.d_rows /= call.dict /\ call.x_rows /= call.data
    /\ prevCall.d_rows /= prevCall.dict /\ prevCall.x_rows /= prevCall.data
    /\ held.dict = call.dict /\ held.data = call.data
-----------------------------------------------------------------------------
(* Claims about a validation run and its prior run (SpecSince)             *)

\* the findings of the last run of a type
LastOfType(t) == SelectSeq(last.out.findings, LAMBDA f : f.type = <<t>>)

\* the extra_column_in_data findings the column check makes for the
\* dataset of the last run
GenericExtras ==
    LET fs == SelectSeq(check_columns(LastDict, LastCols),
                  LAMBDA f : f.type = <<"extra_column_in_data">>)
    IN  [i \in DOMAIN fs |-> as_dict(fs[i])]

\* the run resolved nothing, or a path that is no findings file on the disk
NoPrior == Ran /\ (last.prev = None \/ ~FoundFindings(last.prev[1]))

\* the run resolved a findings file that was on the disk
Resolved == Ran /\ last.prev /= None /\ FoundFindings(last.prev[1])

\* the run directory of the prior, and what its findings.json persists:
\* every findings.json of a run directory is written by a run over the
\* directory's dictionary and dataset
PriorDir == last.prev[1][2]
PriorCols == Range(FixtureOf(PriorDir).data.header)
PriorChoices(var) ==
    LET ch == load_dictionary(FixtureOf(PriorDir).dict).choices
    IN  IF var \in DOMAIN ch THEN Range(ChoicePairs(ch[var])) ELSE {}

\* C11: when no prior result is resolvable (no explicit path, no usable
\* pointer, no naming match, or the resolved file does not exist), the run
\* completes, emits no extra_column_since_last_run and no
\* domain_mismatch_since_last_run finding, and drops no
\* extra_column_in_data finding.
C11_NoPriorNoDiff ==
    NoPrior =>
        /\ ~last.baseline
        /\ last.out.kind = "object"
        /\ \A i \in DOMAIN last.out.findings : last.out.findings[i].type \notin SinceTypes
        /\ LastOfType("extra_column_in_data") = GenericExtras

\* a run in proj_perturbed with a --prev that names no file: the columns
\* no field declares are reported as extra_column_in_data
C11_Witness ==
    /\ NoPrior /\ last.name = P1
    /\ last.prev = Some(<<Root, <<"nowhere.json">> >>)
    /\ Len(LastOfType("extra_column_in_data")) >= 1

\* the current columns that are absent from the prior's column set
NewCols == Range(LastCols) \ PriorCols

\* the code=label pairs of a field that are absent from the prior's
AddedPairs(var) ==
    Range(ChoicePairs(LastDict.choices[var])) \ PriorChoices(var)

\* C12: when a prior result is resolved, the findings hold one info
\* extra_column_since_last_run for each current dataset column that is not
\* in the prior run's persisted column set and none for any other column,
\* and one info domain_mismatch_since_last_run for each dictionary field
\* whose current code=label pairs include a pair absent from the prior
\* run's persisted choices of the field, listing exactly the added pairs,
\* sorted, and none for any other field.
C12_SinceFindings ==
    Resolved =>
        LET cols == LastOfType("extra_column_since_last_run")
            doms == LastOfType("domain_mismatch_since_last_run")
        IN  /\ last.baseline
            /\ \A c \in NewCols :
                   Cardinality({i \in DOMAIN cols : cols[i].variable = c}) = 1
            /\ \A i \in DOMAIN cols :
                   cols[i].variable \in NewCols /\ cols[i].severity = <<"info">>
            /\ \A v \in DOMAIN LastDict.choices :
                   AddedPairs(v) /= {} =>
                       Cardinality({i \in DOMAIN doms : doms[i].variable = v}) = 1
            /\ \A i \in DOMAIN doms :
                   /\ doms[i].variable \in DOMAIN LastDict.choices
                   /\ AddedPairs(doms[i].variable) /= {}
                   /\ doms[i].observed_added = Some(SortStrs(AddedPairs(doms[i].variable)))
                   /\ doms[i].severity = <<"info">>

\* a run in proj_perturbed_v2 against proj_perturbed: one column and one
\* choice of sex are new, the other columns and fields are not
C12_Witness ==
    /\ Resolved /\ last.name = P2 /\ PriorDir = P1
    /\ NewCols = {<<"new_since_last_run">>}
    /\ Len(LastOfType("extra_column_since_last_run")) = 1
    /\ Len(LastOfType("domain_mismatch_since_last_run")) = 1
    /\ LastOfType("domain_mismatch_since_last_run")[1].observed_added
           = Some(<< <<"2", "=", "Other">> >>)

\* C13: whenever a since-last-run baseline is resolved, the emitted
\* findings hold no extra_column_in_data finding for a column that is
\* absent from the baseline's persisted column set (such a column is
\* reported as extra_column_since_last_run only), and the
\* extra_column_in_data findings for columns of the baseline are kept.
C13_Suppression ==
    Resolved =>
        LET generic == LastOfType("extra_column_in_data")
        IN  /\ \A i \in DOMAIN generic : generic[i].variable \notin NewCols
            /\ generic = SelectSeq(GenericExtras, LAMBDA f : f.variable \notin NewCols)
            /\ \A c \in NewCols :
                   \E i \in DOMAIN last.out.findings :
                       /\ last.out.findings[i].type = <<"extra_column_since_last_run">>
                       /\ last.out.findings[i].variable = c

\* the disk is as the last run left it
Fresh ==
    /\ Ran
    /\ disk[last.name] /= None
    /\ disk[last.name][1].findings = Some(last.out)
    /\ disk[last.name][1].ptr = last.ptr
    /\ {n \in DOMAIN disk : disk[n] /= None} = last.dirs

\* C14: a second run of the validator on the same dictionary and dataset
\* in the same run directory, with the same command line, yields the
\* findings of the first, although the first has written its findings.json
\* into the directory.
C14_Rerun ==
    Fresh => main(disk, last.name, last.args).out.findings = last.out.findings
-----------------------------------------------------------------------------
(* Claims about what the corruption engine logs (SpecCorrupt, SpecRecipes) *)

\* the last call was a call of apply_since_last_run that returned
SinceCall == call /= NoCall /\ call.fn = "apply_since_last_run" /\ ~call.raised

\* the dictionary rows the last call returned changed
ChangedFields ==
    IF Len(call.d_rows) /= Len(call.dict) THEN DOMAIN call.d_rows \cup DOMAIN call.dict
    ELSE {i \in DOMAIN call.d_rows : call.d_rows[i] /= call.dict[i]}

\* the codes of a dictionary row
CodesOf(r) == {p[1] : p \in Range(_choice_pairs(r))}

\* one field of the returned dictionary has one code more, nothing else of
\* the dictionary changed
OneCodeAdded ==
    /\ Cardinality(ChangedFields) = 1
    /\ \A i \in ChangedFields :
           /\ call.d_rows[i].variable_name = call.gold[1].variable
           /\ CodesOf(call.dict[i]) \subseteq CodesOf(call.d_rows[i])
           /\ Cardinality(CodesOf(call.d_rows[i]) \ CodesOf(call.dict[i])) = 1

\* the returned dataset has one column more, in every row, nothing else of
\* the dataset changed
OneColumnAdded ==
    /\ call.x_rows /= call.data
    /\ Len(call.x_rows) = Len(call.data)
    /\ \A k \in DOMAIN call.x_rows :
           /\ ~OHas(call.data[k], call.gold[2].variable)
           /\ OHas(call.x_rows[k], call.gold[2].variable)
           /\ ODel(call.x_rows[k], call.gold[2].variable) = call.data[k]

\* C15: apply_since_last_run makes exactly two changes for every input
\* pair and seed and returns a gold list of exactly two records: one
\* domain_mismatch_since_last_run for a code newly introduced on one
\* field, one extra_column_since_last_run for one newly added data column.
C15_TwoChanges ==
    SinceCall =>
        /\ Len(call.gold) = 2
        /\ call.gold[1].type = <<"domain_mismatch_since_last_run">>
        /\ call.gold[2].type = <<"extra_column_since_last_run">>
        /\ OneCodeAdded
        /\ OneColumnAdded

\* the last call was a call of apply_corruptions
CorruptCall == call /= NoCall /\ call.fn = "apply_corruptions"

\* C16: a recipe of apply_corruptions appends a gold record only if it
\* changed the dictionary or the dataset relative to the state just before
\* it ran, for every recipe, seed and input.
C16_NoChangeNoGold ==
    CorruptCall => call.silent = {}

\* the types of the gold records of the last call
GoldTypes == {call.gold[i].type[1] : i \in DOMAIN call.gold}

\* the rows of the last call's returned dataset that hold the level "9"
\* of the domain drift recipe in the column of a single-choice field where
\* the dataset given held another value
InjectedCodes ==
    {kc \in (DOMAIN call.x_rows) \X Range(VarsWith(_dict_by_var(call.dict),
                                        Typed(_dict_by_var(call.dict), {T_radio, T_dropdown}))) :
        /\ kc[1] \in DOMAIN call.data
        /\ OGet(call.x_rows[kc[1]], kc[2], <<>>) = <<"9">>
        /\ OGet(call.data[kc[1]], kc[2], <<>>) /= <<"9">>}

\* C17: for every seed and every combination of enable flags the gold
\* list of apply_corruptions never holds both a domain_mismatch record and
\* an export_mode_labels_detected record, and no out-of-catalog code is
\* injected when label export is enabled.
C17_Exclusive ==
    CorruptCall =>
        /\ ~({"domain_mismatch", "export_mode_labels_detected"} \subseteq GoldTypes)
        /\ Enabled(call.enable, "label_export") => InjectedCodes = {}

\* a call with every recipe enabled on a dataset with rows: the label
\* export is logged, no domain mismatch is
C17_Witness ==
    /\ CorruptCall /\ ~call.raised /\ call.enable = <<>> /\ call.data /= <<>>
    /\ "export_mode_labels_detected" \in GoldTypes
    /\ "domain_mismatch" \notin GoldTypes

\* the column keys of a row
KeysOf(row) == {row[i][1] : i \in DOMAIN row}

\* C27: every row of the dataset apply_corruptions returns has the same
\* set of column keys, for every seed and every set of enabled recipes,
\* so that a header taken from the first row covers every value of every
\* row.
C27_UniformKeys ==
    (CorruptCall /\ ~call.raised) =>
        \A i, j \in DOMAIN call.x_rows : KeysOf(call.x_rows[i]) = KeysOf(call.x_rows[j])

\* the gold types of the recipes that act on data rows or columns: every
\* type but that of the matrix break, which moves a dictionary row
DataGoldTypes == {call.gold[i].type[1] : i \in DOMAIN call.gold} \ {"matrix_nonconsecutive"}

\* C30: apply_corruptions called with a dataset of no rows and the default
\* flags (every recipe enabled) returns without raising, with an empty
\* perturbed dataset and no gold record of a recipe that acts on data rows
\* or columns.
C30_EmptyDataset ==
    (CorruptCall /\ call.data = <<>> /\ call.enable = <<>>) =>
        /\ ~call.raised
        /\ call.x_rows = <<>>
        /\ DataGoldTypes = {}
-----------------------------------------------------------------------------
(* Claims about single checks (SpecChecks)                                 *)

\* the last call was a call of check_types on a field of one of the four
\* kinds whose column is in the dataset, under its own name or under a
\* name the rename hints give for it
TypeCall ==
    /\ checkCall /= NoCheck /\ checkCall.fn = "check_types"
    /\ checkCall.kind \in {<<"integer">>, <<"number">>, <<"date_ymd">>, <<"datetime_ymd">>}
    /\ \/ checkCall.col = checkCall.var
       \/ \E i \in DOMAIN _RENAME_HINTS :
              /\ _RENAME_HINTS[i][1] = checkCall.var
              /\ checkCall.col \in Range(_RENAME_HINTS[i][2])

\* the value parses under the kind: base-10 integer, float, strict
\* YYYY-MM-DD for the two date kinds
ParsesAs(kind, v) ==
    IF kind = <<"integer">> THEN is_int(v)
    ELSE IF kind = <<"number">> THEN is_num(v)
    ELSE is_date_ymd(v)

\* the non-empty values of the last call, and how many of them parse
Sampled == SelectSeq(checkCall.values, LAMBDA v : v /= <<>>)
Parsed == Cardinality({i \in DOMAIN Sampled : ParsesAs(checkCall.kind, Sampled[i])})

\* C18: for a text field validated as integer, decimal, date-YMD or
\* datetime-YMD whose column is present (directly or through a known
\* rename), check_types emits exactly one error type_mismatch iff the
\* fraction of the non-empty values that parse under the declared kind is
\* strictly below 0.95; rows_affected is the number of non-empty values
\* that fail to parse, expected is "numeric" for integer and decimal; at
\* exactly 0.95 or with no non-empty value nothing is emitted.
C18_TypeConformance ==
    TypeCall =>
        IF Sampled /= <<>> /\ 100 * Parsed < 95 * Len(Sampled)
        THEN /\ Len(checkCall.findings) = 1
             /\ checkCall.findings[1].type = <<"type_mismatch">>
             /\ checkCall.findings[1].severity = <<"error">>
             /\ checkCall.findings[1].variable = checkCall.var
             /\ checkCall.findings[1].rows_affected = Some(Len(Sampled) - Parsed)
             /\ checkCall.kind \in {<<"integer">>, <<"number">>} =>
                    checkCall.findings[1].expected = Some(PStr(<<"numeric">>))
        ELSE checkCall.findings = <<>>

\* an integer field whose column holds 18 integers, one value that is none
\* and one empty value: 18 of 19 is below the floor, one finding
C18_Witness ==
    /\ TypeCall /\ checkCall.kind = <<"integer">>
    /\ Len(checkCall.values) = 20 /\ Len(Sampled) = 19 /\ Parsed = 18
    /\ Len(checkCall.findings) = 1
    /\ checkCall.findings[1].rows_affected = Some(1)

\* the last call was a call of check_domains on a field whose column is in
\* the dataset
DomainCall ==
    /\ checkCall /= NoCheck /\ checkCall.fn = "check_domains"
    /\ checkCall.col = checkCall.var

\* the declared choices of the field, and the non-empty values of its
\* column that are none of the declared codes
Declared == checkCall.dd.choices[checkCall.var]
Unexpected ==
    {v \in Range(checkCall.values) :
        v /= <<>> /\ \A i \in DOMAIN Declared : Declared[i][1] /= v}

\* the list is in strictly increasing order
Increasing(l) == \A i \in 1..(Len(l) - 1) : StrLess(l[i], l[i + 1])

\* C19: for a single-choice, yes/no or true/false field present in the
\* dataset, check_domains emits exactly one error domain_mismatch iff some
\* non-empty value is outside the declared code set; expected is the full
\* declared code=label list, observed the sorted list of the distinct
\* unexpected values, rows_affected the number of rows that hold an
\* unexpected value.
C19_DomainConformance ==
    DomainCall =>
        IF Unexpected /= {}
        THEN /\ Len(checkCall.findings) = 1
             /\ checkCall.findings[1].type = <<"domain_mismatch">>
             /\ checkCall.findings[1].severity = <<"error">>
             /\ checkCall.findings[1].variable = checkCall.var
             /\ checkCall.findings[1].expected =
                    Some(PList([i \in DOMAIN Declared |->
                                   PStr(Declared[i][1] \o <<"=">> \o Declared[i][2])]))
             /\ \E l \in {SortStrs(Unexpected)} :
                    /\ Increasing(l)
                    /\ checkCall.findings[1].observed =
                           Some(PList([i \in DOMAIN l |-> PStr(l[i])]))
             /\ checkCall.findings[1].rows_affected =
                    Some(Cardinality({i \in DOMAIN checkCall.values :
                                          checkCall.values[i] \in Unexpected}))
        ELSE checkCall.findings = <<>>

\* sex with the codes 0 and 1, and three rows holding "9", "x" and "9"
C19_Witness ==
    /\ DomainCall
    /\ checkCall.values = << <<"9">>, <<"x">>, <<"9">> >>
    /\ Len(Declared) = 2
    /\ Len(checkCall.findings) = 1
    /\ checkCall.findings[1].observed = Some(PList(<<PStr(<<"9">>), PStr(<<"x">>)>>))
    /\ checkCall.findings[1].rows_affected = Some(3)

\* the last call ran the matrix break recipe, which logged its gold record
MatrixCall ==
    /\ checkCall /= NoCheck /\ checkCall.fn = "matrix_break"
    /\ Len(checkCall.gold) = 1
    /\ checkCall.gold[1].type = <<"matrix_nonconsecutive">>

\* the rows of the group g are at consecutive places of the dictionary
DeclaredConsecutively(rows, g) ==
    \A i, j, k \in DOMAIN rows :
        (i < j /\ j < k /\ rows[i].matrix_group_name = g /\ rows[k].matrix_group_name = g)
            => rows[j].matrix_group_name = g

\* C20: for a matrix group whose fields are declared consecutively, after
\* the matrix break recipe has moved one of its fields to the end of the
\* dictionary and logged matrix_nonconsecutive, check_matrix_consecutive
\* emits exactly one warn matrix_nonconsecutive for the group, and it emits
\* none for the dictionary in which the group is consecutive.
C20_MatrixEndToEnd ==
    (MatrixCall /\ DeclaredConsecutively(checkCall.dict, <<"adls">>)) =>
        /\ checkCall.before = <<>>
        /\ Len(checkCall.findings) = 1
        /\ checkCall.findings[1].type = <<"matrix_nonconsecutive">>
        /\ checkCall.findings[1].severity = <<"warn">>
        /\ checkCall.findings[1].variable = <<"adls">>

\* C25: every type_mismatch finding carries at most 5 examples, each a
\* sampled non-empty value of the column that fails to parse under the
\* field's declared kind (integer, decimal, date-YMD or datetime-YMD); no
\* value that parses is listed as an example.
C25_FailingExamples ==
    TypeCall =>
        \A i \in DOMAIN checkCall.findings :
            checkCall.findings[i].type = <<"type_mismatch">> =>
                LET ex == IF checkCall.findings[i].examples = None THEN <<>>
                          ELSE checkCall.findings[i].examples[1]
                IN  /\ Len(ex) <= 5
                    /\ \A k \in DOMAIN ex :
                           /\ ex[k] \in Range(Sampled)
                           /\ ~ParsesAs(checkCall.kind, ex[k])
-----------------------------------------------------------------------------
(* Claims about the column check and the primary key check (SpecChecks)    *)

\* the last call was a call of check_columns
ColumnsCall == checkCall /= NoCheck /\ checkCall.fn = "check_columns"

\* the declared fields of the call, by kind
DeclaredFields == {checkCall.dd.fields[i] : i \in DOMAIN checkCall.dd.fields}
PlainVars == {f.variable : f \in {g \in DeclaredFields : g.field_type /= T_checkbox}}
CheckboxFields == {f \in DeclaredFields : f.field_type = T_checkbox}

\* the expansion columns var___code the checkbox fields declare
Expansions ==
    UNION {{f.variable \o <<"___">> \o f.choices[i][1] : i \in DOMAIN f.choices} :
              f \in CheckboxFields}

\* the known rename alternatives of a variable
Alternatives(v) ==
    UNION {Range(_RENAME_HINTS[i][2]) : i \in {j \in DOMAIN _RENAME_HINTS : _RENAME_HINTS[j][1] = v}}

\* how many findings of a type the last call made for a variable
CountOf(t, v) ==
    Cardinality({i \in DOMAIN checkCall.findings :
                    checkCall.findings[i].type = <<t>> /\ checkCall.findings[i].variable = v})

\* the columns the check must report as missing
MustBeMissing ==
    {v \in PlainVars : v \notin Range(checkCall.cols) /\ Alternatives(v) \cap Range(checkCall.cols) = {}}
    \cup (Expansions \ Range(checkCall.cols))

\* C21: check_columns emits exactly one error missing_column_in_data for
\* every declared non-checkbox variable that is absent from the dataset
\* columns, unless one of its known rename alternatives is a dataset
\* column, and one per absent expected expansion column var___code of
\* every declared checkbox field; it emits none for any other column, in
\* particular none for a column that is present.
C21_MissingColumns ==
    ColumnsCall =>
        /\ \A v \in MustBeMissing : CountOf("missing_column_in_data", v) = 1
        /\ \A i \in DOMAIN checkCall.findings :
               checkCall.findings[i].type = <<"missing_column_in_data">> =>
                   /\ checkCall.findings[i].variable \in MustBeMissing
                   /\ checkCall.findings[i].variable \notin Range(checkCall.cols)
                   /\ checkCall.findings[i].severity = <<"error">>

\* the three fields declared, sbp in place of bp_sys and one expansion
\* column of three present: age and two expansion columns are reported,
\* bp_sys is not
C21_Witness ==
    /\ ColumnsCall
    /\ Len(checkCall.dd.fields) = 3
    /\ Range(checkCall.cols) = {<<"sbp">>, <<"symptoms", "___", "1">>}
    /\ MustBeMissing = {<<"age">>, <<"symptoms", "___", "2">>, <<"symptoms", "___", "3">>}
    /\ CountOf("missing_column_in_data", <<"bp_sys">>) = 0
    /\ CountOf("missing_column_in_data", <<"age">>) = 1

\* the dataset columns the dictionary explains: a declared non-checkbox
\* variable, a declared expansion column, a known rename alternative of a
\* declared variable, or a reserved longitudinal column
Explained(col) ==
    \/ col \in PlainVars
    \/ col \in Expansions
    \/ \E f \in DeclaredFields : col \in Alternatives(f.variable)
    \/ col \in REDCAP_META_COLUMNS

\* C22: check_columns emits one warn extra_column_in_data for every
\* dataset column that is neither a declared non-checkbox variable, nor a
\* declared checkbox expansion var___code, nor a known rename alternative
\* of a declared variable, nor one of the three reserved longitudinal
\* columns; and it emits none for an explained column.
C22_ExtraColumns ==
    ColumnsCall =>
        /\ \A c \in Range(checkCall.cols) :
               CountOf("extra_column_in_data", c) = IF Explained(c) THEN 0 ELSE 1
        /\ \A i \in DOMAIN checkCall.findings :
               checkCall.findings[i].type = <<"extra_column_in_data">> =>
                   /\ checkCall.findings[i].variable \in Range(checkCall.cols)
                   /\ checkCall.findings[i].severity = <<"warn">>

\* the last call was a call of check_primary_key
KeyCall == checkCall /= NoCheck /\ checkCall.fn = "check_primary_key"

\* the key of the call: record_id when it is a column, else the first
\* declared field, if there is one
TheKey ==
    IF <<"record_id">> \in Range(checkCall.cols) THEN Some(<<"record_id">>)
    ELSE IF Len(checkCall.dd.fields) >= 1 THEN Some(checkCall.dd.fields[1].variable)
    ELSE None

\* the key of every row, without the blanks around it, and the rows
\* whose non-empty key is the key of an earlier row
RowKeys ==
    IF TheKey /= None /\ TheKey[1] = checkCall.cols[checkCall.at]
    THEN [i \in DOMAIN checkCall.values |-> Strip(checkCall.values[i])]
    ELSE [i \in DOMAIN checkCall.values |-> <<"1">>]
RepeatRows ==
    {i \in DOMAIN RowKeys : RowKeys[i] /= <<>> /\ \E j \in 1..(i - 1) : RowKeys[j] = RowKeys[i]}

\* C24: check_primary_key uses record_id as the key when it is present,
\* else the dictionary's first declared field; when the key is not a
\* dataset column it emits exactly one error missing_primary_key_column
\* and nothing else; otherwise it emits at most one error
\* duplicate_primary_key_values, present iff some non-empty key value
\* occurs in more than one row, with rows_affected the number of rows
\* whose non-empty key equals the key of an earlier row and with at most 5
\* example values, each a duplicated key; blank keys are never counted.
C24_PrimaryKey ==
    (KeyCall /\ TheKey /= None) =>
        LET fs == checkCall.findings
        IN  IF TheKey[1] \notin Range(checkCall.cols)
            THEN /\ Len(fs) = 1
                 /\ fs[1].type = <<"missing_primary_key_column">>
                 /\ fs[1].severity = <<"error">>
                 /\ fs[1].variable = TheKey[1]
            ELSE IF RepeatRows = {} THEN fs = <<>>
            ELSE /\ Len(fs) = 1
                 /\ fs[1].type = <<"duplicate_primary_key_values">>
                 /\ fs[1].severity = <<"error">>
                 /\ fs[1].variable = TheKey[1]
                 /\ fs[1].rows_affected = Some(Cardinality(RepeatRows))
                 /\ fs[1].examples /= None
                 /\ Len(fs[1].examples[1]) \in 1..5
                 /\ \A k \in DOMAIN fs[1].examples[1] :
                        /\ fs[1].examples[1][k] \in {RowKeys[i] : i \in RepeatRows}
                        /\ fs[1].examples[1][k] /= <<>>

\* the key is the first declared field; six keys in two rows each, one of
\* them in a third row, and two rows without a key: one finding, seven
\* rows affected, five examples
C24_Witness ==
    /\ KeyCall /\ TheKey = Some(<<"pid">>)
    /\ Cardinality({RowKeys[i] : i \in RepeatRows}) = 6
    /\ Cardinality({i \in DOMAIN RowKeys : RowKeys[i] = <<>>}) = 2
    /\ Len(checkCall.findings) = 1
    /\ checkCall.findings[1].rows_affected = Some(7)
    /\ Len(checkCall.findings[1].examples[1]) = 5

\* the last call was a run of the first recipe
DropCall == checkCall /= NoCheck /\ checkCall.fn = "missing_extra_columns"

\* the variables of the missing_column_in_data records it logged
DroppedVars ==
    {checkCall.gold[i].variable :
        i \in {j \in DOMAIN checkCall.gold : checkCall.gold[j].type = <<"missing_column_in_data">>}}

\* the dictionary declares the variable and does not flag it as identifier
Unflagged(v) ==
    \E i \in DOMAIN checkCall.dict :
        /\ checkCall.dict[i].variable_name = v
        /\ Lower(Strip(checkCall.dict[i].identifier)) /= <<"y">>

\* C26: the missing_column_in_data recipe never drops an identifier
\* column: for every seed the column it removes from every data row is a
\* dictionary-defined variable whose identifier flag is not set; after the
\* recipe the column is absent from every row and every other column of
\* the dataset is untouched.
C26_NeverIdentifier ==
    DropCall =>
        /\ Cardinality(DroppedVars) <= 1
        /\ \A v \in DroppedVars :
               /\ Unflagged(v)
               /\ \A k \in DOMAIN checkCall.x_rows : ~OHas(checkCall.x_rows[k], v)
        /\ \A k \in DOMAIN checkCall.data :
               \A i \in DOMAIN checkCall.data[k] :
                   checkCall.data[k][i][1] \notin DroppedVars =>
                       /\ OHas(checkCall.x_rows[k], checkCall.data[k][i][1])
                       /\ OGet(checkCall.x_rows[k], checkCall.data[k][i][1], <<>>)
                              = checkCall.data[k][i][2]
-----------------------------------------------------------------------------
(* Claims about the naming inference (SpecChecks)                          *)

\* the last call was a call of the naming inference
InferCall == checkCall /= NoCheck /\ checkCall.fn = "_infer_prev_findings"

\* the versions the names of the tree can carry
Versions == 0..10

\* the ways a name reads as <base>_perturbed_v<N>, as <base>_v<N> and as
\* v<N>, with a non-empty base
AsPerturbed(name) ==
    {bn \in {<<SubSeq(name, 1, k), n>> : k \in 1..Len(name), n \in Versions} :
        name = bn[1] \o <<"_", "perturbed", "_", "v">> \o IntToStr(bn[2])}
AsVersioned(name) ==
    {bn \in {<<SubSeq(name, 1, k), n>> : k \in 1..Len(name), n \in Versions} :
        name = bn[1] \o <<"_", "v">> \o IntToStr(bn[2])}
AsBare(name) == {n \in Versions : name = <<"v">> \o IntToStr(n)}

\* the one element of a set of one
TheOne(S) == CHOOSE x \in S : TRUE

\* the sibling the three rules name, tried in their order, the first rule
\* that matches deciding alone; `from` is the lowest version the second
\* and the third rule apply to
PriorByRules(name, from) ==
    IF AsPerturbed(name) /= {}
    THEN LET bn == TheOne(AsPerturbed(name))
         IN  IF bn[2] = 2 THEN Some(bn[1] \o <<"_", "perturbed">>)
             ELSE Some(bn[1] \o <<"_", "perturbed", "_", "v">> \o IntToStr(bn[2] - 1))
    ELSE IF AsVersioned(name) /= {} /\ TheOne(AsVersioned(name))[2] >= from
    THEN LET bn == TheOne(AsVersioned(name))
         IN  Some(bn[1] \o <<"_", "v">> \o IntToStr(bn[2] - 1))
    ELSE IF AsBare(name) /= {} /\ TheOne(AsBare(name)) >= from
    THEN Some(<<"v">> \o IntToStr(TheOne(AsBare(name)) - 1))
    ELSE None

\* the findings file of the sibling when it exists, else no prior
FoundPrior(name, from) ==
    LET dir == PriorByRules(name, from)
    IN  IF dir /= None /\ dir[1] \in checkCall.done
        THEN Some(<<Root, dir[1], FINDINGS>>) ELSE None

-----------------------------------------------------------------------------
(* Claims about the scorer's key sets and its two modes (SpecChecks)       *)

\* the last call was a call of score_corpus
ScoreCall == checkCall /= NoCheck /\ checkCall.fn = "score_corpus"

\* C28: score_corpus uses set semantics per run: its metrics are unchanged
\* when a gold record or a finding is duplicated within a run and when
\* the records inside a gold or findings file, or the runs of the corpus,
\* are reordered.
C28_SetSemantics == ScoreCall => checkCall.variedMetrics = checkCall.metrics

\* a finding that matches its gold record is written twice: the type
\* keeps precision 1
C28_Witness ==
    /\ ScoreCall /\ checkCall.how = "duplicate_finding"
    /\ checkCall.corpus["r1"].findings.items = <<IssueG>>
    /\ checkCall.corpus["r1"].gold.items = <<IssueG>>
    /\ Len(checkCall.varied["r1"].findings.items) = 2
    /\ checkCall.metrics.metrics[T_dm].precision = RatOne
    /\ checkCall.variedMetrics.metrics[T_dm].precision = RatOne

\* the metrics of the last call's corpus in the two modes
StrictMetrics == IF checkCall.mode = "strict" THEN checkCall.metrics ELSE checkCall.other
VariableMetrics == IF checkCall.mode = "strict" THEN checkCall.other ELSE checkCall.metrics

\* for every type, precision and recall in strict mode are at most those
\* in variable mode
StrictAtMostVariable ==
    /\ DOMAIN StrictMetrics.metrics = DOMAIN VariableMetrics.metrics
    /\ \A t \in DOMAIN StrictMetrics.metrics :
           /\ RatLeq(StrictMetrics.metrics[t].precision, VariableMetrics.metrics[t].precision)
           /\ RatLeq(StrictMetrics.metrics[t].recall, VariableMetrics.metrics[t].recall)

\* C29 (as stated): for every corpus and every defect type, the precision
\* and the recall score_corpus returns in strict mode are less than or
\* equal to those it returns in variable mode.
C29_Original == ScoreCall => StrictAtMostVariable

\* no two records of the list share type and variable
OnePerVariable(items) ==
    \A i, j \in DOMAIN items :
        (items[i].type = items[j].type /\ items[i].variable = items[j].variable) => i = j

\* in every run of the corpus, the gold records and the findings each hold
\* one record at most per type and variable
OneRecordPerVariable ==
    \A r \in DOMAIN checkCall.corpus :
        /\ OnePerVariable(checkCall.corpus[r].gold.items)
        /\ OnePerVariable(checkCall.corpus[r].findings.items)

\* C29 (amended): for every corpus in which no run holds two gold records
\* or two findings of the same type and variable, and every defect type,
\* the precision and the recall in strict mode are less than or equal to
\* those in variable mode.
C29_StrictNotLenient == (ScoreCall /\ OneRecordPerVariable) => StrictAtMostVariable

\* gold and finding of one type and variable with different payloads:
\* precision and recall are 0 in strict mode and 1 in variable mode
C29_Witness ==
    /\ ScoreCall /\ OneRecordPerVariable
    /\ checkCall.corpus["r1"].gold.items = <<IssueE>>
    /\ checkCall.corpus["r1"].findings.items = <<IssueF>>
    /\ checkCall.corpus["r2"].gold.st = "missing"
    /\ StrictMetrics.metrics[T_dm].precision = RatZero
    /\ VariableMetrics.metrics[T_dm].precision = RatOne
    /\ StrictMetrics.metrics[T_dm].recall = RatZero
    /\ VariableMetrics.metrics[T_dm].recall = RatOne
====
